---- MODULE Spec2Model ----
(***************************************************************************)
(* Model of pandas/io/stata.py: the Stata .dta reader (StataReader), the   *)
(* missing-value tables (StataMissingValue, StataParser), the writer-side  *)
(* cast (_cast_to_stata_types) and the writer's column-name check          *)
(* (StataWriter._check_column_names).                                      *)
(***************************************************************************)
EXTENDS Integers, Sequences, FiniteSets, TLC

VARIABLES
    file,   \* the stream handed to StataReader: header bytes and sections
    rdr,    \* the StataReader instance's attributes
    hist,   \* observation of the calls made on the reader and their outcome
    mv,     \* construction of StataMissingValue.MISSING_VALUES (class body)
    cast,   \* one run of _cast_to_stata_types, column by column
    dec,    \* the missing-value check of StataReader.data, column by column
    names,  \* one run of StataWriter._check_column_names
    wr,     \* a StataWriter: its inputs, its attributes and the destination
    dt,     \* one conversion of a date cell to or from the Stata format
    strm    \* a StataReader parsing a legacy stream that may end early

vars == <<file, rdr, hist, mv, cast, dec, names, wr, dt, strm>>

(***************************************************************************)
(* Bounds of the model                                                     *)
(***************************************************************************)
\* number of public calls made on one reader after its construction
MaxCalls == 3

(***************************************************************************)
(* The stream                                                              *)
(***************************************************************************)
\* first byte of the stream: '<' (60) opens the tagged layout, any other
\* byte is the legacy version byte
LessThanChar == 60

FirstBytes == {0, 103, 104, 105, 108, 110, 113, 114, 115, 116, 117, 118, 242}

\* the three digits of <release> in the tagged header
Releases == {104, 114, 116, 117, 118}

\* value-label tables a file may carry: triples <<label set, code, text>>
LabelTables ==
    { {},
      {<<"lblA", 1, "yes">>},
      {<<"lblA", 1, "yes">>, <<"lblA", 2, "no">>, <<"lblB", 1, "low">>} }

\* the header scalars and the descriptors a stream carries after its version
HeaderContents ==
    { [ byteorder |-> "<", nvar |-> 1, nobs |-> 2, data_label |-> "",
        time_stamp |-> "", data_location |-> 315, typlist |-> <<251>>,
        varlist |-> <<"a">>, fmtlist |-> <<"%8.0g">>, lbllist |-> <<"lblA">>,
        vlblist |-> <<"">> ],
      [ byteorder |-> ">", nvar |-> 2, nobs |-> 1,
        data_label |-> "survey", time_stamp |-> " 1 Jan 2014 10:00",
        data_location |-> 514, typlist |-> <<252, 255>>,
        varlist |-> <<"a", "b">>, fmtlist |-> <<"%8.0g", "%td">>,
        lbllist |-> <<"", "lblB">>, vlblist |-> <<"first", "">> ] }

\* no header: the attributes do not exist before _read_header sets them
NoHeader == [ nvar |-> 0 ]

\* A stream: its first byte, its release digits (tagged layout only), whether
\* the long-string table and the data block are complete (data_ok), the
\* value-label section it carries and whether that section is complete
\* (labels_ok: FALSE is a stream that ends inside a label entry).  A stream
\* that ends inside its data block carries nothing after it.  header is
\* what its header and descriptors hold.
Files ==
    { f \in [first_char : FirstBytes \cup {LessThanChar}, release : Releases \cup {0},
             data_ok : BOOLEAN, labels_ok : BOOLEAN, labels : LabelTables,
             header : HeaderContents] :
        /\ (f.first_char = LessThanChar) <=> (f.release # 0)
        /\ ~f.data_ok => (f.labels = {} /\ f.labels_ok)
        /\ ~f.labels_ok => f.labels # {} }

\* struct.unpack('b', first_char): the byte read as a signed 8-bit integer
UnpackSignedByte(b) == IF b >= 128 THEN b - 256 ELSE b

\* the version lists tested by _read_header
LegacyVersions == {104, 105, 108, 113, 114, 115}
TaggedVersions == {117}

(***************************************************************************)
(* StataReader                                                             *)
(***************************************************************************)
\* attributes set by StataReader.__init__ before the header is read;
\* has_dict tells whether the attribute value_label_dict exists
NewReader ==
    [ state |-> "new", format_version |-> 0, header_read |-> FALSE,
      data_read |-> FALSE, value_labels_read |-> FALSE,
      missing_values |-> FALSE, has_dict |-> FALSE, value_label_dict |-> {},
      pos |-> "start", header |-> NoHeader ]

\* the last call: its name, its outcome, whether it returned a table or a
\* label table, and the labels-read flag and population count it started from
NoCall ==
    [ op |-> "none", result |-> "none", table |-> FALSE,
      pre_labels_read |-> FALSE, pre_populated |-> 0 ]

NewHist ==
    [ calls |-> 0, last |-> NoCall, data_calls |-> 0, tables |-> 0,
      populated |-> 0, labels_returned |-> 0 ]

\* _read_header: the version test of either layout; the descriptors are
\* read only after it passed
ReadHeader_legacy117(r, f) ==
    IF f.first_char = LessThanChar
    THEN IF f.release \notin TaggedVersions
         THEN [r EXCEPT !.state = "failed", !.format_version = f.release,
                        !.pos = "header"]
         ELSE [r EXCEPT !.state = "ready", !.format_version = f.release,
                        !.header_read = TRUE, !.pos = "data",
                        !.header = f.header]
    ELSE LET v == UnpackSignedByte(f.first_char) IN
         IF v \notin (LegacyVersions \cup {117})
         THEN [r EXCEPT !.state = "failed", !.format_version = v,
                        !.pos = "header"]
         ELSE [r EXCEPT !.state = "ready", !.format_version = v,
                        !.header_read = TRUE, !.pos = "data",
                        !.header = f.header]

ReadHeader(r, f) ==
    IF f.first_char = LessThanChar
    THEN IF f.release \notin TaggedVersions
         THEN [r EXCEPT !.state = "failed", !.format_version = f.release,
                        !.pos = "header"]
         ELSE [r EXCEPT !.state = "ready", !.format_version = f.release,
                        !.header_read = TRUE, !.pos = "data",
                        !.header = f.header]
    ELSE LET v == UnpackSignedByte(f.first_char) IN
         IF v \notin LegacyVersions
         THEN [r EXCEPT !.state = "failed", !.format_version = v,
                        !.pos = "header"]
         ELSE [r EXCEPT !.state = "ready", !.format_version = v,
                        !.header_read = TRUE, !.pos = "data",
                        !.header = f.header]

\* the loop of _read_value_labels, from the stream position r.pos: at the
\* end of the stream the first read is empty and the loop ends at once
ParseValueLabels(r, f) ==
    LET r1 == [r EXCEPT !.has_dict = TRUE, !.value_label_dict = {}] IN
    IF r.format_version <= 108
    THEN [rdr |-> r1, res |-> "ok", populated |-> 1]
    ELSE IF r1.pos = "labels" /\ ~f.labels_ok
    THEN [rdr |-> [r1 EXCEPT !.pos = "eof"], res |-> "StreamError", populated |-> 1]
    ELSE [rdr |-> [r1 EXCEPT !.value_label_dict =
                                 IF r1.pos = "labels" THEN f.labels ELSE {},
                             !.value_labels_read = TRUE, !.pos = "eof"],
          res |-> "ok", populated |-> 1]

ReadValueLabels_noDataCheck(r, f) ==
    IF r.format_version >= 117
    THEN ParseValueLabels([r EXCEPT !.pos = "labels"], f)
    ELSE IF r.value_labels_read
    THEN [rdr |-> r, res |-> "LabelsAlreadyRead", populated |-> 0]
    ELSE ParseValueLabels(r, f)

\* StataReader._read_value_labels
ReadValueLabels(r, f) ==
    IF r.format_version >= 117
    THEN ParseValueLabels([r EXCEPT !.pos = "labels"], f)
    ELSE IF ~r.data_read
    THEN [rdr |-> r, res |-> "DataNotRead", populated |-> 0]
    ELSE IF r.value_labels_read
    THEN [rdr |-> r, res |-> "LabelsAlreadyRead", populated |-> 0]
    ELSE ParseValueLabels(r, f)

DataAlreadyRead_never(r) == FALSE

SetMissingValues_dropsHeader(r, cm) ==
    [r EXCEPT !.missing_values = cm, !.header = NoHeader]

\* the first statement of StataReader.data: the only attribute it assigns
\* from its arguments is _missing_values
SetMissingValues(r, cm) == [r EXCEPT !.missing_values = cm]

\* the guard of StataReader.data
DataAlreadyRead(r) == r.data_read

\* StataReader.data(convert_categoricals = cc, convert_missing = cm):
\* the reader it leaves, its outcome and whether it returned a table
DataCall(r, f, cc, cm) ==
    LET r1 == SetMissingValues(r, cm) IN
    IF DataAlreadyRead(r1)
    THEN [rdr |-> r1, res |-> "DataAlreadyRead", populated |-> 0]
    ELSE LET r2 == [r1 EXCEPT !.data_read = TRUE] IN
         IF ~f.data_ok
         THEN [rdr |-> [r2 EXCEPT !.pos = "eof"], res |-> "StreamError",
               populated |-> 0]
         ELSE LET r3 == [r2 EXCEPT !.pos = "labels"] IN
              IF cc THEN ReadValueLabels(r3, f)
              ELSE [rdr |-> r3, res |-> "ok", populated |-> 0]

ValueLabelsCall_always(r, f) == ReadValueLabels(r, f)

\* StataReader.value_labels
ValueLabelsCall(r, f) ==
    IF ~r.value_labels_read
    THEN ReadValueLabels(r, f)
    ELSE [rdr |-> r, res |-> "ok", populated |-> 0]

\* StataReader.__init__
Construct ==
    /\ rdr.state = "new"
    /\ rdr' = ReadHeader(NewReader, file)
    /\ UNCHANGED <<file, hist, mv, cast, dec, names, wr, dt, strm>>

\* StataReader.data
Data ==
    /\ rdr.state = "ready"
    /\ hist.calls < MaxCalls
    /\ \E cc \in BOOLEAN, cm \in BOOLEAN :
          LET x == DataCall(rdr, file, cc, cm) IN
          /\ rdr' = x.rdr
          /\ hist' = [hist EXCEPT
                        !.calls = @ + 1,
                        !.data_calls = @ + 1,
                        !.tables = @ + (IF x.res = "ok" THEN 1 ELSE 0),
                        !.populated = @ + x.populated,
                        !.last = [op |-> "data", result |-> x.res,
                                  table |-> x.res = "ok",
                                  pre_labels_read |-> rdr.value_labels_read,
                                  pre_populated |-> hist.populated]]
    /\ UNCHANGED <<file, mv, cast, dec, names, wr, dt, strm>>

\* StataReader.value_labels
ValueLabels ==
    /\ rdr.state = "ready"
    /\ hist.calls < MaxCalls
    /\ LET x == ValueLabelsCall(rdr, file) IN
          /\ rdr' = x.rdr
          /\ hist' = [hist EXCEPT
                        !.calls = @ + 1,
                        !.populated = @ + x.populated,
                        !.labels_returned = @ + (IF x.res = "ok" THEN 1 ELSE 0),
                        !.last = [op |-> "value_labels", result |-> x.res,
                                  table |-> x.res = "ok",
                                  pre_labels_read |-> rdr.value_labels_read,
                                  pre_populated |-> hist.populated]]
    /\ UNCHANGED <<file, mv, cast, dec, names, wr, dt, strm>>

\* StataReader.variable_labels
VariableLabels ==
    /\ rdr.state = "ready"
    /\ hist.calls < MaxCalls
    /\ hist' = [hist EXCEPT
                  !.calls = @ + 1,
                  !.last = [op |-> "variable_labels", result |-> "ok",
                            table |-> FALSE,
                            pre_labels_read |-> rdr.value_labels_read,
                            pre_populated |-> hist.populated]]
    /\ UNCHANGED <<file, rdr, mv, cast, dec, names, wr, dt, strm>>

Idle == [phase |-> "idle"]

InitReader ==
    /\ file \in Files
    /\ rdr = NewReader
    /\ hist = NewHist
    /\ mv = Idle
    /\ cast = Idle
    /\ dec = Idle
    /\ names = Idle
    /\ wr = Idle
    /\ dt = Idle
    /\ strm = Idle

NextReader == Construct \/ Data \/ ValueLabels \/ VariableLabels

SpecReader == InitReader /\ [][NextReader]_vars

(***************************************************************************)
(* Numbers and bytes                                                       *)
(***************************************************************************)
Pow2(n) == 2 ^ n

\* the number of bits of x, 0 < x < 2^30
BitLen(x) == CHOOSE n \in 1..30 : Pow2(n - 1) <= x /\ x < Pow2(n)

\* the number of trailing zero bits of x, 0 < x < 2^30
TrailingZeros(x) == CHOOSE n \in 0..29 : x % Pow2(n) = 0 /\ x % Pow2(n + 1) # 0

\* A Python number, as the exact value (hi * 2^24 + lo) * 2^e with an odd
\* mantissa (zero is <<0, 0, 0>>): two numbers are equal as dictionary keys
\* exactly when these records are equal.  Here 0 <= lo < 2^24, 0 <= hi < 2^29.
Canon(hi, lo, e) ==
    IF hi = 0 /\ lo = 0 THEN [hi |-> 0, lo |-> 0, e |-> 0]
    ELSE IF lo = 0
    THEN LET m == hi \div Pow2(TrailingZeros(hi)) IN
         [hi |-> m \div Pow2(24), lo |-> m % Pow2(24),
          e |-> e + 24 + TrailingZeros(hi)]
    ELSE LET z == TrailingZeros(lo) IN
         [hi |-> hi \div Pow2(z),
          lo |-> (lo \div Pow2(z)) + (hi % Pow2(z)) * Pow2(24 - z),
          e |-> e + z]

\* a non-negative Python int below 2^31
IntNum(n) == Canon(n \div Pow2(24), n % Pow2(24), 0)

Reverse(q) == [k \in 1..Len(q) |-> q[Len(q) + 1 - k]]

\* struct.unpack('<i', b): four bytes, least significant first, signed
UnpackLE32(b) ==
    (IF b[4] >= 128 THEN b[4] - 256 ELSE b[4]) * Pow2(24)
        + b[3] * 65536 + b[2] * 256 + b[1]

\* struct.pack('<i', n) for 0 <= n < 2^31
PackLE32(n) ==
    << n % 256, (n \div 256) % 256, (n \div 65536) % 256, n \div Pow2(24) >>

\* struct.unpack('<f', b) of a positive normal single: (2^23 + frac) * 2^(exp-150)
UnpackFloat32(b) ==
    LET bits == UnpackLE32(b)
        ex   == bits \div Pow2(23)
        frac == bits % Pow2(23)
    IN  Canon(0, Pow2(23) + frac, ex - 150)

\* struct.pack('<f', v) of a positive value a single holds exactly (its
\* mantissa m has at most 24 bits): the mantissa is moved up to 24 bits
PackFloat32Bits(m, e) ==
    LET k == 24 - BitLen(m) IN
    (e - k + 150) * Pow2(23) + (m * Pow2(k) - Pow2(23))

PackFloat32(v) == PackLE32(PackFloat32Bits(v.hi * Pow2(24) + v.lo, v.e))

\* struct.unpack('<d', b) of a positive normal double:
\* (2^52 + frac) * 2^(exp - 1075), the 53-bit mantissa held as hi * 2^24 + lo
UnpackFloat64(b) ==
    LET ex == (b[8] % 128) * 16 + (b[7] \div 16)
        hi == ((16 + (b[7] % 16)) * 256 + b[6]) * 65536 + b[5] * 256 + b[4]
        lo == b[3] * 65536 + b[2] * 256 + b[1]
    IN  Canon(hi, lo, ex - 1075)

\* struct.pack('<d', v) of a positive value: the mantissa hi * 2^24 + lo is
\* moved up by k bits to 53 bits
PackFloat64Norm(hi, lo, e) ==
    LET k   == IF hi = 0 THEN 53 - BitLen(lo) ELSE 29 - BitLen(hi)
        h   == IF hi = 0 THEN lo * Pow2(k - 24)
               ELSE IF k >= 24 THEN hi * Pow2(k) + lo * Pow2(k - 24)
               ELSE hi * Pow2(k) + (lo \div Pow2(24 - k))
        l   == IF hi = 0 \/ k >= 24 THEN 0 ELSE (lo % Pow2(24 - k)) * Pow2(k)
        ex  == e - k + 1075
    IN  << l % 256, (l \div 256) % 256, l \div 65536,
           h % 256, (h \div 256) % 256, (h \div 65536) % 256,
           (ex % 16) * 16 + ((h \div Pow2(24)) % 16), ex \div 16 >>

PackFloat64(v) == PackFloat64Norm(v.hi, v.lo, v.e)

\* struct.unpack('q', b) and struct.pack('q', n) use the byte order of the
\* host: a 64-bit integer is held as its eight base-256 digits, least
\* significant first
UnpackNative64(b, native) == IF native = "<" THEN b ELSE Reverse(b)
PackNative64(d, native) == IF native = "<" THEN d ELSE Reverse(d)

\* the sum of two 64-bit integers given by their digits, modulo 2^64
RECURSIVE AddDigits(_, _, _, _)
AddDigits(a, b, k, carry) ==
    IF k > Len(a) THEN << >>
    ELSE LET t == a[k] + b[k] + carry IN
         <<t % 256>> \o AddDigits(a, b, k + 1, t \div 256)

Add64(a, b) == AddDigits(a, b, 1, 0)

(***************************************************************************)
(* StataMissingValue.MISSING_VALUES: the class body that builds the table  *)
(***************************************************************************)
Letters ==
    << "a", "b", "c", "d", "e", "f", "g", "h", "i", "j", "k", "l", "m",
       "n", "o", "p", "q", "r", "s", "t", "u", "v", "w", "x", "y", "z" >>

\* chr(n) for the codes of the lower-case letters
Chr(n) == Letters[n - 96]

MvSymbol_noLetter(i) == "."

\* the symbol stored by iteration i of a loop: '.' and, for i > 0, chr(96 + i)
MvSymbol(i) == IF i = 0 THEN "." ELSE "." \o Chr(96 + i)

\* bases = (101, 32741, 2147483621)
MvBases == <<101, 32741, 2147483621>>

\* base = b'\x00\x00\x00\x7f', increment = b'\x00\x08\x00\x00'
MvBase32 == <<0, 0, 0, 127>>
MvIncrement32 == <<0, 8, 0, 0>>

\* base = b'\x00\x00\x00\x00\x00\x00\xe0\x7f',
\* increment = b'\x00\x00\x00\x00\x00\x01\x00\x00'
MvBase64 == <<0, 0, 0, 0, 0, 0, 224, 127>>
MvIncrement64 == <<0, 0, 0, 0, 0, 1, 0, 0>>

\* range(27): the loops run over i = 0 .. MvCount - 1
MvCount == 27

\* d[k] = s on a dictionary held as a set of <<key, value>> pairs
DictPut(d, k, s) == {p \in d : p[1] # k} \cup {<<k, s>>}
DictKeys(d) == {p[1] : p \in d}
DictGet(d, k) == (CHOOSE p \in d : p[1] = k)[2]

\* the state before the class body runs; native is the host's byte order
MvStart(native) ==
    [ phase |-> "int", native |-> native, b |-> 1, i |-> 0,
      base |-> << >>, table |-> {},
      keys |-> [k \in {"b", "h", "l", "f", "d"} |-> << >>] ]

IntKind(b) == <<"b", "h", "l">>[b]

\* the last two statements of the single-precision loop: the base of the
\* next iteration
NextBase32(base) ==
    LET value     == UnpackFloat32(base)
        int_value == UnpackLE32(PackFloat32(value)) + UnpackLE32(MvIncrement32)
    IN  PackLE32(int_value)

\* the last two statements of the double-precision loop
NextBase64(base, native) ==
    LET value     == UnpackFloat64(base)
        int_value == Add64(UnpackNative64(PackFloat64(value), native),
                           UnpackNative64(MvIncrement64, native))
    IN  PackNative64(int_value, native)

\* one assignment of the loop over the integer bases
MvIntNext(m) ==
    LET key  == IntNum(m.i + MvBases[m.b])
        last == m.i = MvCount - 1
    IN  [m EXCEPT
           !.table = DictPut(@, key, MvSymbol(m.i)),
           !.keys[IntKind(m.b)] = Append(@, key),
           !.i = IF last THEN 0 ELSE @ + 1,
           !.b = IF last /\ m.b < Len(MvBases) THEN @ + 1 ELSE @,
           !.phase = IF last /\ m.b = Len(MvBases) THEN "f32" ELSE @,
           !.base = IF last /\ m.b = Len(MvBases) THEN MvBase32 ELSE @]

\* one iteration of the loop over the single-precision values
MvFloat32Next(m) ==
    LET value == UnpackFloat32(m.base)
        last  == m.i = MvCount - 1
    IN  [m EXCEPT
           !.table = DictPut(@, value, MvSymbol(m.i)),
           !.keys["f"] = Append(@, value),
           !.i = IF last THEN 0 ELSE @ + 1,
           !.phase = IF last THEN "f64" ELSE @,
           !.base = IF last THEN MvBase64 ELSE NextBase32(m.base)]

\* one iteration of the loop over the double-precision values
MvFloat64Next(m) ==
    LET value == UnpackFloat64(m.base)
        last  == m.i = MvCount - 1
    IN  [m EXCEPT
           !.table = DictPut(@, value, MvSymbol(m.i)),
           !.keys["d"] = Append(@, value),
           !.i = IF last THEN 0 ELSE @ + 1,
           !.phase = IF last THEN "done" ELSE @,
           !.base = NextBase64(m.base, m.native)]

MvIntStep ==
    /\ mv.phase = "int"
    /\ mv' = MvIntNext(mv)
    /\ UNCHANGED <<file, rdr, hist, cast, dec, names, wr, dt, strm>>

MvFloat32Step ==
    /\ mv.phase = "f32"
    /\ mv' = MvFloat32Next(mv)
    /\ UNCHANGED <<file, rdr, hist, cast, dec, names, wr, dt, strm>>

MvFloat64Step ==
    /\ mv.phase = "f64"
    /\ mv' = MvFloat64Next(mv)
    /\ UNCHANGED <<file, rdr, hist, cast, dec, names, wr, dt, strm>>

\* the next statement of the class body
MvNext(m) ==
    CASE m.phase = "int" -> MvIntNext(m)
      [] m.phase = "f32" -> MvFloat32Next(m)
      [] m.phase = "f64" -> MvFloat64Next(m)
      [] OTHER -> m

\* k statements of the class body
RECURSIVE MvIterate(_, _)
MvIterate(m, k) == IF k = 0 THEN m ELSE MvNext(MvIterate(m, k - 1))

\* the class body run to its end on a little-endian host, one loop of
\* MvCount iterations at a time
MvAfterInt8 == MvIterate(MvStart("<"), MvCount)
MvAfterInt16 == MvIterate(MvAfterInt8, MvCount)
MvAfterInt32 == MvIterate(MvAfterInt16, MvCount)
MvAfterFloat32 == MvIterate(MvAfterInt32, MvCount)
MvAfterFloat64 == MvIterate(MvAfterFloat32, MvCount)

\* StataMissingValue.MISSING_VALUES once the module is imported
MISSING_VALUES == MvAfterFloat64.table

\* StataParser.MISSING_VALUES: the generic missing value of each kind
ParserMissingValue(kind) ==
    CASE kind = "b" -> IntNum(101)
      [] kind = "h" -> IntNum(32741)
      [] kind = "l" -> IntNum(2147483621)
      [] kind = "f" -> UnpackFloat32(<<0, 0, 0, 127>>)
      [] kind = "d" -> UnpackFloat64(<<0, 0, 0, 0, 0, 0, 224, 127>>)

InitMissing ==
    /\ file = Idle
    /\ rdr = Idle
    /\ hist = Idle
    /\ mv \in {MvStart("<"), MvStart(">")}
    /\ cast = Idle
    /\ dec = Idle
    /\ names = Idle
    /\ wr = Idle
    /\ dt = Idle
    /\ strm = Idle

NextMissing == MvIntStep \/ MvFloat32Step \/ MvFloat64Step

SpecMissing == InitMissing /\ [][NextMissing]_vars

\* C7: for each of int8, int16, int32, float32 and float64 the table holds 27
\* pairwise distinct sentinels and maps the i-th of them to the i-th symbol
\* of '.', '.a', ..., '.z'; the integer sentinels are 101..127, 32741..32767
\* and 2147483621..2147483647, the floating ones are the values of the bit
\* patterns 0x7f000000 + i * 0x800 and 0x7fe0000000000000 + i * 2^40, that
\* is (4096 + i) * 2^115 and (4096 + i) * 2^1011.
C7_Symbols ==
    << ".", ".a", ".b", ".c", ".d", ".e", ".f", ".g", ".h", ".i", ".j", ".k",
       ".l", ".m", ".n", ".o", ".p", ".q", ".r", ".s", ".t", ".u", ".v", ".w",
       ".x", ".y", ".z" >>

C7_Expected(kind, i) ==
    CASE kind = "b" -> IntNum(101 + i)
      [] kind = "h" -> IntNum(32741 + i)
      [] kind = "l" -> IntNum(2147483621 + i)
      [] kind = "f" -> Canon(0, 4096 + i, 115)
      [] kind = "d" -> Canon(0, 4096 + i, 1011)

C7_SentinelBijection ==
    mv.phase = "done" =>
        /\ \A kind \in {"b", "h", "l", "f", "d"} :
              /\ Len(mv.keys[kind]) = 27
              /\ \A i \in 0..26 :
                    /\ mv.keys[kind][i + 1] = C7_Expected(kind, i)
                    /\ DictGet(mv.table, mv.keys[kind][i + 1]) = C7_Symbols[i + 1]
              /\ \A i, j \in 1..27 :
                    i # j => mv.keys[kind][i] # mv.keys[kind][j]
              /\ DictGet(mv.table, ParserMissingValue(kind)) = "."
        /\ Cardinality(DictKeys(mv.table)) = 5 * 27
        /\ mv.table = MISSING_VALUES
        /\ Cardinality(mv.table) = 5 * 27

C7_Witness ==
    /\ mv.phase = "done"
    /\ Cardinality(mv.table) = 135
    /\ DictGet(mv.table, Canon(0, 4096 + 26, 1011)) = ".z"


(***************************************************************************)
(* Columns of a table                                                      *)
(***************************************************************************)
\* rows of a column
MaxRows == 2
\* columns of a table
MaxCols == 2

SeqsUpTo(S, n) == UNION {[1..k -> S] : k \in 0..n}

\* An integer of any width of the table, as sign and magnitude
\* hi * 10^9 + lo with 0 <= lo < 10^9 (zero is never negative)
Big(neg, hi, lo) == [neg |-> neg, hi |-> hi, lo |-> lo]
Pos(hi, lo) == Big(FALSE, hi, lo)
Neg(hi, lo) == Big(TRUE, hi, lo)

MagLT(a, b) == a.hi < b.hi \/ (a.hi = b.hi /\ a.lo < b.lo)

BigLT(a, b) ==
    IF a.neg /\ ~b.neg THEN TRUE
    ELSE IF ~a.neg /\ b.neg THEN FALSE
    ELSE IF a.neg THEN MagLT(b, a)
    ELSE MagLT(a, b)

BigLE(a, b) == a = b \/ BigLT(a, b)

\* data[col].max() <= b, max() > b, max() >= b, min() < b, min() >= b,
\* min() <= b: the maximum and minimum of an empty column are NaN, and
\* every comparison with NaN is false
MaxLE(vals, b) == Len(vals) > 0 /\ \A k \in 1..Len(vals) : BigLE(vals[k], b)
MaxGT(vals, b) == \E k \in 1..Len(vals) : BigLT(b, vals[k])
MaxGE(vals, b) == \E k \in 1..Len(vals) : BigLE(b, vals[k])
MinLT(vals, b) == \E k \in 1..Len(vals) : BigLT(vals[k], b)
MinGE(vals, b) == Len(vals) > 0 /\ \A k \in 1..Len(vals) : BigLE(b, vals[k])
MinLE(vals, b) == \E k \in 1..Len(vals) : BigLE(vals[k], b)

\* 2 ** 53
TwoPow53 == Pos(9007199, 254740992)

\* the values a column of each kind is drawn from: the neighbours of every
\* threshold the cast tests and the extreme values of the kind
ValuesOf(dtype) ==
    CASE dtype = "bool"   -> {Pos(0, 0), Pos(0, 1)}
      [] dtype = "uint8"  -> {Pos(0, 100), Pos(0, 101), Pos(0, 127), Pos(0, 128),
                              Pos(0, 255)}
      [] dtype = "uint16" -> {Pos(0, 32740), Pos(0, 32741), Pos(0, 32767),
                              Pos(0, 32768), Pos(0, 65535)}
      [] dtype = "uint32" -> {Pos(2, 147483620), Pos(2, 147483621),
                              Pos(2, 147483647), Pos(2, 147483648),
                              Pos(4, 294967295)}
      [] dtype = "int8"   -> {Neg(0, 128), Neg(0, 127), Pos(0, 100), Pos(0, 101),
                              Pos(0, 127)}
      [] dtype = "int16"  -> {Neg(0, 32768), Neg(0, 32767), Pos(0, 32740),
                              Pos(0, 32741), Pos(0, 32767)}
      [] dtype = "int32"  -> {Neg(2, 147483648), Neg(2, 147483647),
                              Pos(2, 147483620), Pos(2, 147483621),
                              Pos(2, 147483647)}
      [] dtype = "int64"  -> {Neg(9007199, 254740992), Neg(9007199, 254740991),
                              Neg(2, 147483648), Neg(2, 147483647),
                              Pos(2, 147483620), Pos(2, 147483621),
                              Pos(9007199, 254740991), Pos(9007199, 254740992)}
      [] OTHER            -> {Pos(0, 0), Pos(0, 101)}

Dtypes ==
    { "bool", "uint8", "uint16", "uint32", "int8", "int16", "int32", "int64",
      "float32", "float64", "object" }

Columns ==
    UNION { [dtype : {d}, values : SeqsUpTo(ValuesOf(d), MaxRows)] : d \in Dtypes }

NoColumn == [dtype |-> "none", values |-> << >>]

(***************************************************************************)
(* _cast_to_stata_types                                                    *)
(***************************************************************************)
\* conversion_data: original, if small, if large
conversion_data ==
    << <<"bool", "int8", "int8">>,
       <<"uint8", "int8", "int16">>,
       <<"uint16", "int16", "int32">>,
       <<"uint32", "int32", "int64">> >>

\* np.iinfo(dtype).max
IInfoMax(dtype) ==
    CASE dtype = "int8"  -> Pos(0, 127)
      [] dtype = "int16" -> Pos(0, 32767)
      [] dtype = "int32" -> Pos(2, 147483647)

\* a value below 2^54 in magnitude as the nearest float64 (ties to even):
\* exact up to 2^53, a multiple of 2 above
ToFloat64(v) ==
    IF MagLT(v, TwoPow53) \/ v.lo % 2 = 0 THEN v
    ELSE IF v.lo % 4 = 1 THEN [v EXCEPT !.lo = @ - 1]
    ELSE IF v.lo = 999999999 THEN [v EXCEPT !.hi = @ + 1, !.lo = 0]
    ELSE [v EXCEPT !.lo = @ + 1]

\* a value as a signed integer of the given width (two's complement wrap)
ToSigned(v, dtype) ==
    LET n == (IF v.neg THEN -1 ELSE 1) * v.lo IN
    CASE dtype = "int8"  -> LET w == ((n + 128) % 256) - 128 IN
                            Big(w < 0, 0, IF w < 0 THEN -w ELSE w)
      [] dtype = "int16" -> LET w == ((n + 32768) % 65536) - 32768 IN
                            Big(w < 0, 0, IF w < 0 THEN -w ELSE w)
      [] dtype = "int32" ->
            IF ~v.neg /\ BigLT(Pos(2, 147483647), v)
            THEN LET w == (v.hi - 4) * 1000000000 + (v.lo - 294967296) IN
                 Big(TRUE, (-w) \div 1000000000, (-w) % 1000000000)
            ELSE v
      [] OTHER -> v

\* Series.astype(dtype)
AsType(col, dtype) ==
    [ dtype  |-> dtype,
      values |-> [k \in 1..Len(col.values) |->
                     IF dtype = "float64" THEN ToFloat64(col.values[k])
                     ELSE ToSigned(col.values[k], dtype)] ]

\* lines 388-398: the cast from the unsupported kinds
ConvertUnsupported(col) ==
    LET hits == {k \in 1..Len(conversion_data) : conversion_data[k][1] = col.dtype} IN
    IF hits = {} THEN col
    ELSE LET c_data == conversion_data[CHOOSE k \in hits : TRUE] IN
         IF MaxLE(col.values, IInfoMax(c_data[2]))
         THEN AsType(col, c_data[2])
         ELSE AsType(col, c_data[3])

WidenInt8_fullRange(col) ==
    MaxGT(col.values, Pos(0, 127)) \/ MinLT(col.values, Neg(0, 128))

\* line 403
WidenInt8(col) ==
    MaxGT(col.values, Pos(0, 100)) \/ MinLT(col.values, Neg(0, 127))

\* line 406
WidenInt16(col) ==
    MaxGT(col.values, Pos(0, 32740)) \/ MinLT(col.values, Neg(0, 32767))

Int64FitsInt32_fullRange(col) ==
    MaxLE(col.values, Pos(2, 147483647)) /\ MinGE(col.values, Neg(2, 147483648))

\* line 409
Int64FitsInt32(col) ==
    MaxLE(col.values, Pos(2, 147483620)) /\ MinGE(col.values, Neg(2, 147483647))

\* line 413, on the column already cast to float64
PrecisionLost(col) ==
    MaxGE(col.values, TwoPow53) \/ MinLE(col.values, [TwoPow53 EXCEPT !.neg = TRUE])

\* lines 402-414: the range checks; ws tells whether the warning text is set
CheckValues(col) ==
    CASE col.dtype = "int8" ->
            [col |-> IF WidenInt8(col) THEN AsType(col, "int16") ELSE col,
             ws |-> FALSE]
      [] col.dtype = "int16" ->
            [col |-> IF WidenInt16(col) THEN AsType(col, "int32") ELSE col,
             ws |-> FALSE]
      [] col.dtype = "int64" ->
            IF Int64FitsInt32(col)
            THEN [col |-> AsType(col, "int32"), ws |-> FALSE]
            ELSE LET f == AsType(col, "float64") IN
                 [col |-> f, ws |-> PrecisionLost(f)]
      [] OTHER -> [col |-> col, ws |-> FALSE]

\* the state of _cast_to_stata_types before its loop
CastStart ==
    [ phase |-> "loop", n |-> 0, ws |-> FALSE, in |-> NoColumn,
      out |-> NoColumn, hit |-> FALSE, hits |-> 0, warned |-> FALSE ]

\* one iteration of "for col in data"
CastColumn ==
    /\ cast.phase = "loop"
    /\ cast.n < MaxCols
    /\ \E col \in Columns :
          LET x == CheckValues(ConvertUnsupported(col)) IN
          cast' = [cast EXCEPT
                     !.n = @ + 1,
                     !.ws = @ \/ x.ws,
                     !.in = col,
                     !.out = x.col,
                     !.hit = x.ws,
                     !.hits = @ + (IF x.ws THEN 1 ELSE 0)]
    /\ UNCHANGED <<file, rdr, hist, mv, dec, names, wr, dt, strm>>

\* lines 416-421: the warning and the return
CastReturn ==
    /\ cast.phase = "loop"
    /\ cast' = [cast EXCEPT !.phase = "done", !.warned = cast.ws]
    /\ UNCHANGED <<file, rdr, hist, mv, dec, names, wr, dt, strm>>

InitCast ==
    /\ file = Idle
    /\ rdr = Idle
    /\ hist = Idle
    /\ mv = Idle
    /\ cast = CastStart
    /\ dec = Idle
    /\ names = Idle
    /\ wr = Idle
    /\ dt = Idle
    /\ strm = Idle

NextCast == CastColumn \/ CastReturn

SpecCast == InitCast /\ [][NextCast]_vars

\* C8: an int64 column is cast to int32 when its minimum is >= -2147483647
\* and its maximum is <= 2147483620 and to float64 otherwise; the precision
\* warning is raised exactly when a column was cast to float64 and its
\* maximum is >= 2^53 or its minimum is <= -2^53.
C8_Fits(vals) ==
    /\ Len(vals) > 0
    /\ \A k \in 1..Len(vals) :
          /\ BigLE(Neg(2, 147483647), vals[k])
          /\ BigLE(vals[k], Pos(2, 147483620))

C8_Beyond(vals) ==
    \E k \in 1..Len(vals) :
        \/ BigLE(Pos(9007199, 254740992), vals[k])
        \/ BigLE(vals[k], Neg(9007199, 254740992))

C8_Int64Cast ==
    /\ (cast.n > 0 /\ cast.in.dtype = "int64") =>
          /\ cast.out.dtype = (IF C8_Fits(cast.in.values) THEN "int32" ELSE "float64")
          /\ cast.hit <=> (cast.out.dtype = "float64" /\ C8_Beyond(cast.in.values))
    /\ (cast.n > 0 /\ cast.in.dtype # "int64") => ~cast.hit
    /\ cast.ws <=> cast.hits > 0
    /\ cast.phase = "done" => (cast.warned <=> cast.hits > 0)

C8_Witness ==
    /\ cast.phase = "done"
    /\ cast.warned
    /\ cast.in.dtype = "int64"
    /\ cast.in.values = <<Pos(2, 147483621), Pos(9007199, 254740992)>>
    /\ cast.out.dtype = "float64"

\* C9: an int8 column becomes int16 exactly when its maximum exceeds 100 or
\* its minimum is below -127, an int16 column becomes int32 exactly when its
\* maximum exceeds 32740 or its minimum is below -32767, otherwise the column
\* keeps its kind; a bool, uint8 or uint16 column goes through the same check
\* in the signed kind it was first cast to; the values are kept.
C9_Outside(vals, lo, hi) ==
    \E k \in 1..Len(vals) : BigLT(vals[k], lo) \/ BigLT(hi, vals[k])

C9_SmallIntWidening ==
    cast.n > 0 =>
        /\ cast.in.dtype = "int8" =>
              cast.out.dtype = (IF C9_Outside(cast.in.values, Neg(0, 127), Pos(0, 100))
                                THEN "int16" ELSE "int8")
        /\ cast.in.dtype = "int16" =>
              cast.out.dtype = (IF C9_Outside(cast.in.values, Neg(0, 32767), Pos(0, 32740))
                                THEN "int32" ELSE "int16")
        /\ cast.in.dtype = "bool" => cast.out.dtype = "int8"
        /\ (cast.in.dtype = "uint8" /\ Len(cast.in.values) > 0) =>
              cast.out.dtype = (IF C9_Outside(cast.in.values, Neg(0, 127), Pos(0, 100))
                                THEN "int16" ELSE "int8")
        /\ (cast.in.dtype = "uint16" /\ Len(cast.in.values) > 0) =>
              cast.out.dtype = (IF C9_Outside(cast.in.values, Neg(0, 32767), Pos(0, 32740))
                                THEN "int32" ELSE "int16")
        /\ cast.in.dtype \in {"bool", "uint8", "uint16", "int8", "int16"} =>
              cast.out.values = cast.in.values

C9_Witness ==
    /\ cast.n > 0
    /\ cast.in.dtype = "uint8"
    /\ cast.in.values = <<Pos(0, 100), Pos(0, 101)>>
    /\ cast.out.dtype = "int16"


(***************************************************************************)
(* StataReader.data: the check for missing values                          *)
(***************************************************************************)
\* StataParser.VALID_RANGE of the integer kinds: <<minimum, maximum>>
VALID_RANGE(fmt) ==
    CASE fmt = "b" -> <<-127, 100>>
      [] fmt = "h" -> <<-32767, 32740>>
      [] fmt = "l" -> <<-2147483647, 2147483620>>

\* StataParser.NUMPY_TYPE_MAP
NUMPY_TYPE_MAP(fmt) ==
    CASE fmt = "b" -> "int8"
      [] fmt = "h" -> "int16"
      [] fmt = "l" -> "int32"
      [] OTHER     -> "object"

PromotedKind_always(dtype) == "float64"

\* lines 1080-1082: the kind of the column that holds NaN for the missing
\* cells
PromotedKind(dtype) ==
    IF dtype \notin {"float32", "float64"} THEN "float64" ELSE dtype

IsMissing_inclusive(v, nmin, nmax) == v <= nmin \/ v >= nmax

\* line 1065: np.logical_or(series < nmin, series > nmax), cell by cell
IsMissing(v, nmin, nmax) == v < nmin \/ v > nmax

\* the cells a stored column of each kind is drawn from; "str" is a column
\* of fixed-width strings, which has no valid range
DecValues(fmt) ==
    CASE fmt = "b" -> {-128, -127, 100, 101, 127}
      [] fmt = "h" -> {-32768, -32767, 32740, 32741, 32767}
      [] fmt = "l" -> {-2147483647 - 1, -2147483647, 2147483620, 2147483621,
                       2147483647}
      [] OTHER     -> {0, 101}

\* whether StataMissingValue(v) finds the integer v among the keys of
\* MISSING_VALUES (all of which are positive); it raises KeyError otherwise
HasMissingValue(v) == v >= 0 /\ IntNum(v) \in DictKeys(MISSING_VALUES)

Cell(kind, v, sym) == [kind |-> kind, v |-> v, sym |-> sym]

\* lines 1058-1087 for one column: the mask, and the column that replaces
\* the stored one (StataMissingValue objects, or NaN in a floating column)
DecodeMissing(fmt, vals, convert_missing) ==
    LET plain == [k \in 1..Len(vals) |-> Cell("num", vals[k], "")] IN
    IF fmt \notin {"b", "h", "l"}
    THEN [missing |-> [k \in 1..Len(vals) |-> FALSE], out |-> plain,
          dtype |-> NUMPY_TYPE_MAP(fmt), error |-> "none"]
    ELSE LET nmin == VALID_RANGE(fmt)[1]
             nmax == VALID_RANGE(fmt)[2]
             missing == [k \in 1..Len(vals) |-> IsMissing(vals[k], nmin, nmax)]
             any == \E k \in 1..Len(vals) : missing[k]
         IN  IF ~any
             THEN [missing |-> missing, out |-> plain,
                   dtype |-> NUMPY_TYPE_MAP(fmt), error |-> "none"]
             ELSE IF convert_missing
             THEN IF \E k \in 1..Len(vals) : missing[k] /\ ~HasMissingValue(vals[k])
                  THEN [missing |-> missing, out |-> << >>,
                        dtype |-> "none", error |-> "KeyError"]
                  ELSE [missing |-> missing,
                        out |-> [k \in 1..Len(vals) |->
                                   IF missing[k]
                                   THEN Cell("missing", vals[k],
                                             DictGet(MISSING_VALUES, IntNum(vals[k])))
                                   ELSE plain[k]],
                        dtype |-> "object", error |-> "none"]
             ELSE [missing |-> missing,
                   out |-> [k \in 1..Len(vals) |->
                              IF missing[k] THEN Cell("nan", 0, "") ELSE plain[k]],
                   dtype |-> PromotedKind(NUMPY_TYPE_MAP(fmt)), error |-> "none"]

DecStart ==
    [ n |-> 0, fmt |-> "none", values |-> << >>, convert_missing |-> FALSE,
      missing |-> << >>, out |-> << >>, dtype |-> "none", error |-> "none" ]

\* one iteration of the loop of line 1058, over a column of any kind
DecodeColumn ==
    /\ dec.n < MaxCols
    /\ dec.error = "none"
    /\ \E fmt \in {"b", "h", "l", "str"}, cm \in BOOLEAN :
          \E vals \in SeqsUpTo(DecValues(fmt), MaxRows) :
             LET x == DecodeMissing(fmt, vals, cm) IN
             dec' = [ n |-> dec.n + 1, fmt |-> fmt, values |-> vals,
                      convert_missing |-> cm, missing |-> x.missing,
                      out |-> x.out, dtype |-> x.dtype, error |-> x.error ]
    /\ UNCHANGED <<file, rdr, hist, mv, cast, names, wr, dt, strm>>

InitDecode ==
    /\ file = Idle
    /\ rdr = Idle
    /\ hist = Idle
    /\ mv = Idle
    /\ cast = Idle
    /\ dec = DecStart
    /\ names = Idle
    /\ wr = Idle
    /\ dt = Idle
    /\ strm = Idle

\* C6: a cell of an integer column is classified missing exactly when it
\* lies outside [-127, 100] (int8), [-32767, 32740] (int16) or
\* [-2147483647, 2147483620] (int32); int8 101 is missing, int8 100 is not.
C6_MissingOutsideValidRange ==
    (dec.n > 0 /\ dec.fmt \in {"b", "h", "l"}) =>
        /\ Len(dec.missing) = Len(dec.values)
        /\ \A k \in 1..Len(dec.values) :
              LET v == dec.values[k] IN
              /\ dec.fmt = "b" => (dec.missing[k] <=> ~(-127 <= v /\ v <= 100))
              /\ dec.fmt = "h" => (dec.missing[k] <=> ~(-32767 <= v /\ v <= 32740))
              /\ dec.fmt = "l" =>
                    (dec.missing[k] <=> ~(-2147483647 <= v /\ v <= 2147483620))
              /\ (dec.fmt = "b" /\ v = 101) => dec.missing[k]
              /\ (dec.fmt = "b" /\ v = 100) => ~dec.missing[k]

C6_Witness ==
    /\ dec.fmt = "b"
    /\ dec.values = <<100, 101>>
    /\ dec.missing = <<FALSE, TRUE>>


(***************************************************************************)
(* StataWriter._check_column_names                                         *)
(***************************************************************************)
\* number of columns of the frame handed to the writer
MaxNames == 2

\* the characters ' ' .. '~' in code-point order (the grave accent, code 96,
\* by its name); a name is the sequence of its characters
Ascii ==
    << " ", "!", "\"", "#", "$", "%", "&", "'", "(", ")", "*", "+",
       ",", "-", ".", "/", "0", "1", "2", "3", "4", "5", "6", "7",
       "8", "9", ":", ";", "<", "=", ">", "?", "@", "A", "B", "C",
       "D", "E", "F", "G", "H", "I", "J", "K", "L", "M", "N", "O",
       "P", "Q", "R", "S", "T", "U", "V", "W", "X", "Y", "Z", "[",
       "\\", "]", "^", "_", "grave", "a", "b", "c", "d", "e", "f", "g",
       "h", "i", "j", "k", "l", "m", "n", "o", "p", "q", "r", "s",
       "t", "u", "v", "w", "x", "y", "z", "{", "|", "}", "~" >>

\* code point of a character, the order the comparisons c < 'A', c > 'z' use
Ord(c) == IF c = "é" THEN 233
          ELSE 31 + (CHOOSE i \in 1..Len(Ascii) : Ascii[i] = c)

\* a column label: a string, or a non-string label (an int) given by its text
StrName(s) == [is_str |-> TRUE, text |-> s]
IntName(s) == [is_str |-> FALSE, text |-> s]

\* text_type(name)
text_type(name) == name.text

\* str(n) for n >= 0
RECURSIVE Str(_)
Str(n) ==
    IF n < 10 THEN <<Ascii[17 + n]>>
    ELSE Str(n \div 10) \o <<Ascii[17 + (n % 10)]>>

RESERVED_WORDS ==
    {
      <<"a", "g", "g", "r", "e", "g", "a", "t", "e">>,
      <<"a", "r", "r", "a", "y">>,
      <<"b", "o", "o", "l", "e", "a", "n">>,
      <<"b", "r", "e", "a", "k">>,
      <<"b", "y", "t", "e">>,
      <<"c", "a", "s", "e">>,
      <<"c", "a", "t", "c", "h">>,
      <<"c", "l", "a", "s", "s">>,
      <<"c", "o", "l", "v", "e", "c", "t", "o", "r">>,
      <<"c", "o", "m", "p", "l", "e", "x">>,
      <<"c", "o", "n", "s", "t">>,
      <<"c", "o", "n", "t", "i", "n", "u", "e">>,
      <<"d", "e", "f", "a", "u", "l", "t">>,
      <<"d", "e", "l", "e", "g", "a", "t", "e">>,
      <<"d", "e", "l", "e", "t", "e">>,
      <<"d", "o">>,
      <<"d", "o", "u", "b", "l", "e">>,
      <<"e", "l", "s", "e">>,
      <<"e", "l", "t", "y", "p", "e", "d", "e", "f">>,
      <<"e", "n", "d">>,
      <<"e", "n", "u", "m">>,
      <<"e", "x", "p", "l", "i", "c", "i", "t">>,
      <<"e", "x", "p", "o", "r", "t">>,
      <<"e", "x", "t", "e", "r", "n", "a", "l">>,
      <<"f", "l", "o", "a", "t">>,
      <<"f", "o", "r">>,
      <<"f", "r", "i", "e", "n", "d">>,
      <<"f", "u", "n", "c", "t", "i", "o", "n">>,
      <<"g", "l", "o", "b", "a", "l">>,
      <<"g", "o", "t", "o">>,
      <<"i", "f">>,
      <<"i", "n", "l", "i", "n", "e">>,
      <<"i", "n", "t">>,
      <<"l", "o", "c", "a", "l">>,
      <<"l", "o", "n", "g">>,
      <<"N", "U", "L", "L">>,
      <<"p", "r", "a", "g", "m", "a">>,
      <<"p", "r", "o", "t", "e", "c", "t", "e", "d">>,
      <<"q", "u", "a", "d">>,
      <<"r", "o", "w", "v", "e", "c", "t", "o", "r">>,
      <<"s", "h", "o", "r", "t">>,
      <<"t", "y", "p", "e", "d", "e", "f">>,
      <<"t", "y", "p", "e", "n", "a", "m", "e">>,
      <<"v", "i", "r", "t", "u", "a", "l">>
    }

\* (c < 'A' or c > 'Z') and (c < 'a' or c > 'z') and (c < '0' or c > '9')
\* and c != '_'
InvalidChar(c) ==
    /\ (Ord(c) < Ord("A") \/ Ord(c) > Ord("Z"))
    /\ (Ord(c) < Ord("a") \/ Ord(c) > Ord("z"))
    /\ (Ord(c) < Ord("0") \/ Ord(c) > Ord("9"))
    /\ c # "_"

\* name.replace(c, '_')
Replace(s, c, r) == [i \in 1..Len(s) |-> IF s[i] = c THEN r ELSE s[i]]

\* for c in name: if <c is invalid>: name = name.replace(c, '_')
\* (the loop runs over the characters of the string it started with)
RECURSIVE ReplaceLoop(_, _, _)
ReplaceLoop(chars, k, name) ==
    IF k > Len(chars) THEN name
    ELSE ReplaceLoop(chars, k + 1,
                     IF InvalidChar(chars[k]) THEN Replace(name, chars[k], "_")
                     ELSE name)

\* longest variable name Stata accepts
NameLimit == 32

\* name[:min(len(name), 32)]
Truncate(s) == SubSeq(s, 1, IF Len(s) < NameLimit THEN Len(s) ELSE NameLimit)

\* if name in self.RESERVED_WORDS: name = '_' + name
PrefixReserved(s) == IF s \in RESERVED_WORDS THEN <<"_">> \o s ELSE s

\* name[0] >= '0' and name[0] <= '9'
StartsWithDigit(s) == Ord(s[1]) >= Ord("0") /\ Ord(s[1]) <= Ord("9")

\* columns.count(name)
Count(columns, name) == Cardinality({k \in 1..Len(columns) : columns[k] = name})

DedupLoop_none(columns, s, id) == [text |-> s, duplicate_var_id |-> id]

\* while columns.count(name) > 0: prepend '_' and the ascending number,
\* truncate, and increment duplicate_var_id
RECURSIVE DedupLoop(_, _, _)
DedupLoop(columns, s, id) ==
    IF Count(columns, StrName(s)) > 0
    THEN DedupLoop(columns, Truncate(<<"_">> \o Str(id) \o s), id + 1)
    ELSE [text |-> s, duplicate_var_id |-> id]

\* one iteration of the loop over the columns: the name stored in columns[j]
\* and the counter after it, or the IndexError of name[0] on an empty name
CheckName(columns, orig_name, id) ==
    LET replaced == ReplaceLoop(text_type(orig_name), 1, text_type(orig_name))
        unreserved == PrefixReserved(replaced)
    IN  IF unreserved = <<>>
        THEN [error |-> "IndexError", name |-> orig_name,
              duplicate_var_id |-> id, converted |-> FALSE]
        ELSE LET name == Truncate(IF StartsWithDigit(unreserved)
                                  THEN <<"_">> \o unreserved
                                  ELSE unreserved)
             IN  IF StrName(name) # orig_name
                 THEN LET d == DedupLoop(columns, name, id)
                      IN  [error |-> "none", name |-> StrName(d.text),
                           duplicate_var_id |-> d.duplicate_var_id,
                           converted |-> TRUE]
                 ELSE [error |-> "none", name |-> StrName(name),
                       duplicate_var_id |-> id, converted |-> FALSE]

\* for c, o in zip(columns, original_columns): if c != o, move the entry of
\* self._convert_dates from key o to key c; a missing key o is a KeyError
RECURSIVE FixConvertDatesLoop(_, _, _, _)
FixConvertDatesLoop(columns, original_columns, k, convert_dates) ==
    IF k > Len(columns) THEN [error |-> "none", convert_dates |-> convert_dates]
    ELSE IF columns[k] = original_columns[k]
    THEN FixConvertDatesLoop(columns, original_columns, k + 1, convert_dates)
    ELSE IF original_columns[k] \notin DOMAIN convert_dates
    THEN [error |-> "KeyError", convert_dates |-> convert_dates]
    ELSE LET c == columns[k]
             o == original_columns[k]
             set == [key \in (DOMAIN convert_dates) \cup {c} |->
                        IF key = c THEN convert_dates[o] ELSE convert_dates[key]]
             del == [key \in (DOMAIN set) \ {o} |-> set[key]]
         IN  FixConvertDatesLoop(columns, original_columns, k + 1, del)

\* the column labels a frame may carry
Repeat(c, n) == [i \in 1..n |-> c]

InputNames ==
    { StrName(<<>>),
      StrName(<<"1", " ", "a", "-", "b">>),
      StrName(<<"_", "1", "_", "a", "_", "b">>),
      StrName(<<"i", "f">>),
      StrName(<<"_", "i", "f">>),
      StrName(<<"a", "b">>),
      StrName(<<"a", " ", "b">>),
      StrName(<<"a", "_", "b">>),
      StrName(<<"_", "0", "a", "_", "b">>),
      StrName(<<"é">>),
      StrName(Repeat("a", NameLimit)),
      StrName(Repeat("a", NameLimit + 1)),
      StrName(<<"N", "U", "L", "L">>),
      IntName(<<"1">>) }

\* the state at the top of the loop: columns = list(data.columns),
\* original_columns = columns[:], duplicate_var_id = 0; convert_dates is the
\* dictionary given to the writer (empty when none was given), which
\* given_convert_dates remembers as it was on entry
NamesStart(columns, convert_dates) ==
    [phase |-> "loop", columns |-> columns, original_columns |-> columns,
     j |-> 1, duplicate_var_id |-> 0, converted_names |-> <<>>,
     convert_dates |-> convert_dates, given_convert_dates |-> convert_dates,
     error |-> "none"]

\* one iteration of "for j, name in enumerate(columns)"
CheckColumnName ==
    /\ names # Idle
    /\ names.phase = "loop"
    /\ names.j <= Len(names.columns)
    /\ LET r == CheckName(names.columns, names.columns[names.j],
                          names.duplicate_var_id)
       IN  names' =
             IF r.error # "none"
             THEN [names EXCEPT !.phase = "raised", !.error = r.error]
             ELSE [names EXCEPT
                     !.columns[names.j] = r.name,
                     !.duplicate_var_id = r.duplicate_var_id,
                     !.converted_names =
                         IF r.converted
                         THEN Append(@, <<names.columns[names.j], r.name>>)
                         ELSE @,
                     !.j = @ + 1]
    /\ UNCHANGED <<file, rdr, hist, mv, cast, dec, wr, dt, strm>>

\* after the loop: data.columns = columns, the date-conversion keys follow
\* the renamed columns, and data is returned
FixConvertDates ==
    /\ names # Idle
    /\ names.phase = "loop"
    /\ names.j > Len(names.columns)
    /\ LET r == IF names.convert_dates = <<>>
                THEN [error |-> "none", convert_dates |-> names.convert_dates]
                ELSE FixConvertDatesLoop(names.columns, names.original_columns,
                                         1, names.convert_dates)
       IN  names' = [names EXCEPT
                       !.phase = IF r.error = "none" THEN "returned" ELSE "raised",
                       !.error = r.error,
                       !.convert_dates = r.convert_dates]
    /\ UNCHANGED <<file, rdr, hist, mv, cast, dec, wr, dt, strm>>

InitNames ==
    /\ file = Idle
    /\ rdr = Idle
    /\ hist = Idle
    /\ mv = Idle
    /\ cast = Idle
    /\ dec = Idle
    /\ \E columns \in SeqsUpTo(InputNames, MaxNames) :
         \E keys \in SUBSET {columns[k] : k \in 1..Len(columns)} :
            names = NamesStart(columns, [key \in keys |-> "tc"])
    /\ wr = Idle
    /\ dt = Idle
    /\ strm = Idle

NextNames == CheckColumnName \/ FixConvertDates

SpecNames == InitNames /\ [][NextNames]_vars

\* the conditions a Stata variable name meets
ValidName(name) ==
    /\ name.is_str
    /\ \A i \in 1..Len(name.text) : ~InvalidChar(name.text[i])
    /\ Len(name.text) <= NameLimit
    /\ name.text \notin RESERVED_WORDS
    /\ (name.text # <<>> => ~StartsWithDigit(name.text))

\* C10: every input column name yields a name made of [A-Za-z0-9_] only, at
\* most 32 characters long, not a reserved word and not starting with a
\* digit, and a name that already meets these conditions is left unchanged.
C10_EveryNameSanitized ==
    names.phase \in {"loop", "raised", "returned"} =>
        /\ names.error # "IndexError"
        /\ \A k \in 1..(names.j - 1) :
              /\ ValidName(names.columns[k])
              /\ ValidName(names.original_columns[k])
                    => names.columns[k] = names.original_columns[k]

(***************************************************************************)
(* Dates: _stata_elapsed_date_to_datetime_vec (the reader's decode) and    *)
(* _datetime_to_stata_elapsed_vec (the writer's encode)                    *)
(***************************************************************************)
\* datetime.datetime arithmetic: the number of days from 1970-01-01 to the
\* civil date y-m-d, and the civil date of a number of days
DaysFromCivil(y, m, d) ==
    LET yy  == IF m <= 2 THEN y - 1 ELSE y
        era == yy \div 400
        yoe == yy - era * 400
        mp  == (m + 9) % 12
        doy == ((153 * mp + 2) \div 5) + d - 1
        doe == yoe * 365 + (yoe \div 4) - (yoe \div 100) + doy
    IN  era * 146097 + doe - 719468

CivilFromDays(days) ==
    LET z   == days + 719468
        era == z \div 146097
        doe == z - era * 146097
        yoe == (doe - (doe \div 1460) + (doe \div 36524) - (doe \div 146096)) \div 365
        doy == doe - (365 * yoe + (yoe \div 4) - (yoe \div 100))
        mp  == (5 * doy + 2) \div 153
        d   == doy - ((153 * mp + 2) \div 5) + 1
        m   == IF mp < 10 THEN mp + 3 ELSE mp - 9
    IN  [year |-> yoe + era * 400 + (IF m <= 2 THEN 1 ELSE 0),
         month |-> m, day |-> d]

\* a datetime: its civil date and the milliseconds since midnight
DateTime(y, m, d, ms) == [year |-> y, month |-> m, day |-> d, ms |-> ms]

\* stata_epoch = datetime.datetime(1960, 1, 1)
stata_epoch == DateTime(1960, 1, 1, 0)

MsPerDay == 24 * 3600 * 1000

\* base + days, base + milliseconds (relativedelta / to_timedelta)
DayNumber(t) == DaysFromCivil(t.year, t.month, t.day)

AddDays(t, days) ==
    LET c == CivilFromDays(DayNumber(t) + days) IN
    DateTime(c.year, c.month, c.day, t.ms)

AddMs(t, ms) ==
    LET total == t.ms + ms IN
    [AddDays(t, total \div MsPerDay) EXCEPT !.ms = total % MsPerDay]

\* a cell of a column of numbers or of dates: a value or a null (NaN, NaT)
Null == [null |-> TRUE, v |-> 0]
Val(v) == [null |-> FALSE, v |-> v]

\* datetime.MINYEAR and datetime.MAXYEAR: datetime.datetime(y, m, 1) raises
\* ValueError for a year outside them, base + relativedelta raises
\* OverflowError for a date outside them
MINYEAR == 1
MAXYEAR == 9999

\* the decode of one value of the column, already an int64
DecodeWeek_truncating(v) ==
    LET q == IF v < 0 THEN -((-v) \div 52) ELSE v \div 52 IN
    AddDays(DateTime(stata_epoch.year + q, 1, 1, 0), (v - 52 * q) * 7)

DecodeWeek_53(v) ==
    AddDays(DateTime(stata_epoch.year + (v \div 53), 1, 1, 0), (v % 53) * 7)

\* "%tw": year = 1960 + dates // 52, days = (dates % 52) * 7
DecodeWeek(v) ==
    AddDays(DateTime(stata_epoch.year + (v \div 52), 1, 1, 0), (v % 52) * 7)

DecodeValue(v, fmt) ==
    CASE fmt \in {"%tc", "tc"} -> AddMs(stata_epoch, v)
      [] fmt \in {"%td", "td", "%d", "d"} -> AddDays(stata_epoch, v)
      [] fmt \in {"%tw", "tw"} -> DecodeWeek(v)
      [] fmt \in {"%tm", "tm"} ->
            DateTime(stata_epoch.year + (v \div 12), (v % 12) + 1, 1, 0)
      [] fmt \in {"%tq", "tq"} ->
            DateTime(stata_epoch.year + (v \div 4), (v % 4) * 3 + 1, 1, 0)
      [] fmt \in {"%th", "th"} ->
            DateTime(stata_epoch.year + (v \div 2), (v % 2) * 6 + 1, 1, 0)
      [] fmt \in {"%ty", "ty"} -> DateTime(v, 1, 1, 0)

DecodeFormats ==
    {"%tc", "tc", "%td", "td", "%d", "d", "%tw", "tw", "%tm", "tm",
     "%tq", "tq", "%th", "th", "%ty", "ty"}

\* the year of the datetime the decode of v builds
DecodedYear(v, fmt) ==
    CASE fmt \in {"%tc", "tc"} -> CivilFromDays(DayNumber(stata_epoch)
                                                + (v \div MsPerDay)).year
      [] fmt \in {"%td", "td", "%d", "d"} ->
            CivilFromDays(DayNumber(stata_epoch) + v).year
      [] fmt \in {"%tw", "tw"} -> stata_epoch.year + (v \div 52)
      [] fmt \in {"%tm", "tm"} -> stata_epoch.year + (v \div 12)
      [] fmt \in {"%tq", "tq"} -> stata_epoch.year + (v \div 4)
      [] fmt \in {"%th", "th"} -> stata_epoch.year + (v \div 2)
      [] fmt \in {"%ty", "ty"} -> v

\* convert_year_month_safe, convert_year_days_safe and convert_delta_safe
\* build the dates with datetime.datetime when a year is outside the range
\* of Timestamp: the error of a year that datetime does not have
YearError(v, fmt) ==
    IF DecodedYear(v, fmt) >= MINYEAR /\ DecodedYear(v, fmt) <= MAXYEAR THEN "none"
    ELSE IF fmt \in {"%tc", "tc", "%td", "td", "%d", "d"} THEN "OverflowError"
    ELSE "ValueError"

\* "%tC": the values are left in the Stata internal format, as objects,
\* and the cells that were NaN are NaN
PassThrough(cells) ==
    [k \in 1..Len(cells) |-> IF cells[k].null THEN Null ELSE Val(cells[k].v)]

\* _stata_elapsed_date_to_datetime_vec(dates, fmt): the NaN cells are set to
\* 1.0 before the arithmetic and to NaT after it
DecodeDates(cells, fmt) ==
    IF fmt \in {"%tC", "tC"}
    THEN [error |-> "none", kind |-> "object", cells |-> PassThrough(cells)]
    ELSE IF fmt \notin DecodeFormats
    THEN [error |-> "ValueError", kind |-> "none", cells |-> << >>]
    ELSE LET dates == [k \in 1..Len(cells) |->
                          IF cells[k].null THEN 1 ELSE cells[k].v]
             conv  == [k \in 1..Len(cells) |-> DecodeValue(dates[k], fmt)]
             bad   == {k \in 1..Len(cells) : YearError(dates[k], fmt) # "none"}
         IN  IF bad # {}
             THEN [error |-> YearError(dates[CHOOSE k \in bad :
                                                \A j \in bad : k <= j], fmt),
                   kind |-> "none", cells |-> << >>]
             ELSE [error |-> "none", kind |-> "datetime",
                   cells |-> [k \in 1..Len(cells) |->
                                IF cells[k].null THEN Null ELSE Val(conv[k])]]

\* parse_dates_safe: delta in days and milliseconds, year, month, and the
\* days since the start of the year
Delta(t) == [days |-> DayNumber(t) - DayNumber(stata_epoch), ms |-> t.ms]
DaysInYear(t) == DayNumber(t) - DaysFromCivil(t.year, 1, 1)

EncodeFormats ==
    {"%tc", "tc", "%td", "td", "%tw", "tw", "%tm", "tm", "%tq", "tq",
     "%th", "th", "%ty", "ty"}

\* the encode of one date of the column
EncodeValue(t, fmt) ==
    CASE fmt \in {"%tc", "tc"} -> Delta(t).days * MsPerDay + Delta(t).ms
      [] fmt \in {"%td", "td"} -> Delta(t).days
      [] fmt \in {"%tw", "tw"} ->
            52 * (t.year - stata_epoch.year) + (DaysInYear(t) \div 7)
      [] fmt \in {"%tm", "tm"} ->
            12 * (t.year - stata_epoch.year) + t.month - 1
      [] fmt \in {"%tq", "tq"} ->
            4 * (t.year - stata_epoch.year) + ((t.month - 1) \div 3)
      [] fmt \in {"%th", "th"} ->
            2 * (t.year - stata_epoch.year) + (IF t.month > 6 THEN 1 ELSE 0)
      [] fmt \in {"%ty", "ty"} -> t.year

\* a float64 cell of the column that is written: a number, or the value
\* struct.unpack('<d', b'\x00\x00\x00\x00\x00\x00\xe0\x7f') given by its bytes
Number(v) == [missing |-> FALSE, v |-> v, bytes |-> << >>]
MissingDouble == [missing |-> TRUE, v |-> 0, bytes |-> MvBase64]

\* _datetime_to_stata_elapsed_vec(dates, fmt): the null cells are set to the
\* epoch before the arithmetic and to the missing value after it
EncodeDates(cells, fmt) ==
    IF fmt \in {"%tC", "tC"}
    THEN \* only a warning: the dates go to Series(dtype=float64) unconverted
         [error |-> "NotConverted", cells |-> << >>]
    ELSE IF fmt \notin EncodeFormats
    THEN [error |-> "ValueError", cells |-> << >>]
    ELSE LET dates == [k \in 1..Len(cells) |->
                          IF cells[k].null THEN stata_epoch ELSE cells[k].v]
             conv  == [k \in 1..Len(cells) |-> EncodeValue(dates[k], fmt)]
         IN  [error |-> "none",
              cells |-> [k \in 1..Len(cells) |->
                           IF cells[k].null THEN MissingDouble
                           ELSE Number(conv[k])]]

\* the eight bytes, least significant first, of a float64 cell: of the
\* missing value, or of an integer below 2^31 in magnitude
DoubleBytes(cell) ==
    IF cell.missing THEN cell.bytes
    ELSE IF cell.v = 0 THEN <<0, 0, 0, 0, 0, 0, 0, 0>>
    ELSE IF cell.v > 0 THEN PackFloat64(IntNum(cell.v))
    ELSE [PackFloat64(IntNum(-cell.v)) EXCEPT ![8] = @ + 128]

\* a < b for two sequences of bytes of the same length, most significant first
RECURSIVE LexLT(_, _)
LexLT(a, b) ==
    IF a = << >> THEN FALSE
    ELSE IF Head(a) # Head(b) THEN Head(a) < Head(b)
    ELSE LexLT(Tail(a), Tail(b))

\* a < b for two float64 values given by their bytes (neither is a NaN)
DoubleMagnitude(b) == Reverse([b EXCEPT ![8] = @ % 128])
DoubleLT(a, b) ==
    IF a[8] >= 128 /\ b[8] < 128 THEN DoubleMagnitude(a) # DoubleMagnitude(b)
                                      \/ DoubleMagnitude(a) # <<0, 0, 0, 0, 0, 0, 0, 0>>
    ELSE IF a[8] < 128 /\ b[8] >= 128 THEN FALSE
    ELSE IF a[8] >= 128 THEN LexLT(DoubleMagnitude(b), DoubleMagnitude(a))
    ELSE LexLT(DoubleMagnitude(a), DoubleMagnitude(b))

\* VALID_RANGE['d']: float64_min and float64_max
float64_min == <<255, 255, 255, 255, 255, 255, 239, 255>>
float64_max == <<255, 255, 255, 255, 255, 255, 223, 127>>

\* line 1065 on a cell of a column of doubles
IsMissingDouble(cell) ==
    \/ DoubleLT(DoubleBytes(cell), float64_min)
    \/ DoubleLT(float64_max, DoubleBytes(cell))

\* StataReader.data without convert_missing on a column of doubles: the
\* cells outside the valid range become NaN, the others keep their value
LoadDoubles(cells) ==
    [k \in 1..Len(cells) |->
        IF IsMissingDouble(cells[k]) THEN Null ELSE Val(cells[k].v)]

\* the values a column in the Stata internal format is drawn from
SifValues(fmt) ==
    CASE fmt \in {"%tc", "tc", "%tC", "tC"} ->
            {-86400001, -1, 0, 1, 86400000, 1000000000}
      [] fmt \in {"%td", "td", "%d", "d"} -> {-366, -1, 0, 59, 60, 20000}
      [] fmt \in {"%tw", "tw"} -> {-53, -52, -1, 0, 51, 52, 2600}
      [] fmt \in {"%tm", "tm"} -> {-13, -12, -1, 0, 11, 12, 600}
      [] fmt \in {"%tq", "tq"} -> {-5, -4, -1, 0, 3, 4, 200}
      [] fmt \in {"%th", "th"} -> {-3, -2, -1, 0, 1, 2, 100}
      [] fmt \in {"%ty", "ty"} -> {1, 1959, 1960, 1961, 2262, 9999}
      [] OTHER -> {0, 1}

ReadFormats == DecodeFormats \cup {"%tC", "tC", "%tx"}

DatesStart(fmt, cells) ==
    [ phase |-> "sif", fmt |-> fmt, sif |-> cells, kind |-> "none",
      dates |-> << >>, enc |-> << >>, convert_missing |-> FALSE,
      back |-> << >>, error |-> "none" ]

\* the reader decodes a column in the Stata internal format
DecodeSif ==
    /\ dt # Idle
    /\ dt.phase = "sif"
    /\ LET r == DecodeDates(dt.sif, dt.fmt) IN
       dt' = [dt EXCEPT !.phase = IF r.error = "none" THEN "dates" ELSE "raised",
                        !.kind = r.kind, !.dates = r.cells, !.error = r.error]
    /\ UNCHANGED <<file, rdr, hist, mv, cast, dec, names, wr, strm>>

\* the writer encodes the column of dates (_prepare_data, step 1); it is
\* only reached with a format _convert_datetime_to_stata_type accepts
EncodeColumn ==
    /\ dt # Idle
    /\ dt.phase = "dates"
    /\ dt.fmt \in EncodeFormats
    /\ LET r == EncodeDates(dt.dates, dt.fmt) IN
       dt' = [dt EXCEPT !.phase = IF r.error = "none" THEN "encoded" ELSE "raised",
                        !.enc = r.cells, !.error = r.error]
    /\ UNCHANGED <<file, rdr, hist, mv, cast, dec, names, wr, strm>>

\* StataReader.data(convert_dates=True, convert_missing=cm) on a column of
\* doubles with a date format: the check for missing values, then the
\* decode.  With convert_missing a column that has a missing cell becomes a
\* column of objects holding StataMissingValue, and np.isnan of the decode
\* raises TypeError on it.
ReadDates(cells, fmt, cm) ==
    IF cm /\ \E k \in 1..Len(cells) : IsMissingDouble(cells[k])
    THEN [error |-> "TypeError", kind |-> "none", cells |-> << >>]
    ELSE DecodeDates(LoadDoubles(cells), fmt)

\* the column that was written is read back
ReadBackDates ==
    /\ dt # Idle
    /\ dt.phase = "encoded"
    /\ \E cm \in BOOLEAN :
         LET r == ReadDates(dt.enc, dt.fmt, cm) IN
         dt' = [dt EXCEPT !.phase = IF r.error = "none" THEN "back" ELSE "raised",
                          !.convert_missing = cm,
                          !.back = r.cells, !.error = r.error]
    /\ UNCHANGED <<file, rdr, hist, mv, cast, dec, names, wr, strm>>

InitDates ==
    /\ file = Idle
    /\ rdr = Idle
    /\ hist = Idle
    /\ mv = Idle
    /\ cast = Idle
    /\ dec = Idle
    /\ names = Idle
    /\ wr = Idle
    /\ strm = Idle
    /\ \E fmt \in ReadFormats :
         \E cells \in SeqsUpTo({Null} \cup {Val(v) : v \in SifValues(fmt)}, MaxRows) :
            dt = DatesStart(fmt, cells)

NextDates == DecodeSif \/ EncodeColumn \/ ReadBackDates

SpecDates == InitDates /\ [][NextDates]_vars

\* the values of SifValues and values whose year datetime does not have
SifValuesWide(fmt) ==
    SifValues(fmt) \cup
    CASE fmt \in {"%td", "td", "%d", "d"} -> {-715509, -715510, 2936550}
      [] fmt \in {"%tw", "tw"} -> {-101868, -101869, 418080}
      [] fmt \in {"%tm", "tm"} -> {-23508, -23509, 96480}
      [] fmt \in {"%tq", "tq"} -> {-7836, -7837, 32160}
      [] fmt \in {"%th", "th"} -> {-3918, -3919, 16080}
      [] fmt \in {"%ty", "ty"} -> {-1, 0, 10000}
      [] OTHER -> {}

\* the formats C22 names, with and without '%'
SixTags ==
    {"%td", "td", "%tw", "tw", "%tm", "tm", "%tq", "tq", "%th", "th", "%ty", "ty"}

InitSif ==
    /\ file = Idle /\ rdr = Idle /\ hist = Idle /\ mv = Idle /\ cast = Idle
    /\ dec = Idle /\ names = Idle /\ wr = Idle /\ strm = Idle
    /\ \E fmt \in SixTags :
         \E cells \in SeqsUpTo({Null} \cup {Val(v) : v \in SifValuesWide(fmt)},
                               MaxRows) :
            dt = DatesStart(fmt, cells)

NextSif == DecodeSif

\* the decode alone, on columns that hold any integer
SpecSif == InitSif /\ [][NextSif]_vars

SevenTags == EncodeFormats

\* two cells are both null or hold the same value
SameCell(a, b) == a.null = b.null /\ (~a.null => a.v = b.v)

\* C15: for each of tc, td, tw, tm, tq, th and ty (with or without '%'),
\* encoding the date decoded from an integer value gives that value back,
\* and decoding the encoded value gives the same date again.
C15_DatesRoundTrip ==
    (dt.fmt \in SevenTags /\ dt.phase \in {"encoded", "back"}) =>
        /\ dt.error = "none"
        /\ \A k \in 1..Len(dt.sif) :
              ~dt.sif[k].null =>
                  /\ dt.enc[k] = Number(dt.sif[k].v)
                  /\ dt.phase = "back" => SameCell(dt.back[k], dt.dates[k])

C15_Witness ==
    /\ dt.phase = "back"
    /\ dt.fmt = "tw"
    /\ dt.sif = <<Val(-1), Val(51)>>
    /\ dt.dates[1].v = DateTime(1959, 12, 24, 0)
    /\ dt.dates[2].v = DateTime(1960, 12, 23, 0)
    /\ dt.enc = <<Number(-1), Number(51)>>

\* C16: for each of the seven tags a null date cell is encoded as the
\* float64 with the bytes 00 00 00 00 00 00 e0 7f, not as 0 and not as the
\* value of the epoch; reading the column back with date conversion does
\* not fail, the cell is null again, and the other cells of the column
\* decode to the dates that were written.
C16_NullDateIsSentinel ==
    (dt.fmt \in SevenTags /\ dt.phase \in {"encoded", "back", "raised"}) =>
        /\ dt.error = "none"
        /\ \A k \in 1..Len(dt.dates) :
            /\ dt.dates[k].null =>
                  /\ dt.enc[k].missing
                  /\ DoubleBytes(dt.enc[k]) = <<0, 0, 0, 0, 0, 0, 224, 127>>
                  /\ dt.enc[k] # Number(0)
                  /\ dt.enc[k] # Number(EncodeValue(stata_epoch, dt.fmt))
                  /\ dt.phase = "back" => dt.back[k].null
            /\ ~dt.dates[k].null =>
                  /\ ~dt.enc[k].missing
                  /\ dt.phase = "back" => SameCell(dt.back[k], dt.dates[k])

\* the same with the reader's convert_missing left off
C16_NullDateIsSentinel_default ==
    (dt.fmt \in SevenTags /\ dt.phase \in {"encoded", "back", "raised"}
        /\ ~dt.convert_missing) =>
        /\ dt.error = "none"
        /\ \A k \in 1..Len(dt.dates) :
            /\ dt.dates[k].null =>
                  /\ dt.enc[k].missing
                  /\ dt.phase = "back" => dt.back[k].null
            /\ ~dt.dates[k].null =>
                  /\ ~dt.enc[k].missing
                  /\ dt.phase = "back" => SameCell(dt.back[k], dt.dates[k])

C16_Witness ==
    /\ dt.phase = "back"
    /\ dt.fmt = "%td"
    /\ Len(dt.dates) = 2
    /\ dt.dates[1].null
    /\ ~dt.dates[2].null
    /\ dt.dates[2].v = DateTime(1960, 2, 29, 0)
    /\ dt.enc = <<MissingDouble, Number(59)>>
    /\ dt.back[1].null
    /\ ~dt.back[2].null

(***************************************************************************)
(* StataWriter: the constructor (_prepare_pandas, then the destination is  *)
(* opened), write_file, and the read of the written file                   *)
(***************************************************************************)

MaxWriterRows == 1

\* the limit of _dtype_to_default_stata_fmt on the length of a string
StrLimit == 244

\* a float cell is given by its bytes, least significant first, or is NaN
Float(bytes) == [nan |-> FALSE, bytes |-> bytes]
NaN == [nan |-> TRUE, bytes |-> << >>]

\* a cell of a column of objects: a text of chars characters, wide of which
\* take two bytes in utf-8 and one in latin-1, or an object that is no text
Text(chars, wide) == [is_text |-> TRUE, chars |-> chars, wide |-> wide]
GeneralObject == [is_text |-> FALSE, chars |-> 0, wide |-> 0]

\* len(text.encode(encoding))
EncodedLen(text, encoding) ==
    IF encoding = "utf-8" THEN text.chars + text.wide ELSE text.chars

\* the kinds of column a frame given to the writer may hold, and for each
\* kind the pairs of values its rows alternate between
WriterValues(dtype) ==
    CASE dtype = "int8"       -> {<<Neg(0, 127), Pos(0, 100)>>,
                                  <<Pos(0, 101), Pos(0, 1)>>}
      [] dtype = "int16"      -> {<<Pos(0, 32740), Neg(0, 32767)>>}
      [] dtype = "int32"      -> {<<Neg(2, 147483647), Pos(2, 147483620)>>}
      [] dtype = "int64"      -> {<<Pos(0, 1), Neg(0, 2)>>}
      [] dtype = "float32"    -> {<<Float(<<0, 0, 128, 63>>),
                                    Float(<<255, 255, 255, 126>>)>>}
      [] dtype = "float64"    -> {<<Float(float64_max), Float(float64_min)>>,
                                  <<NaN, Float(<<0, 0, 0, 0, 0, 0, 240, 63>>)>>}
      [] dtype = "object"     -> {<<Text(StrLimit, 0), Text(1, 0)>>,
                                  <<Text(StrLimit + 1, 0), Text(1, 0)>>,
                                  <<Text(StrLimit, 1), Text(1, 0)>>,
                                  <<GeneralObject, GeneralObject>>}
      [] dtype = "datetime64" -> {<<Val(DateTime(1960, 1, 8, 0)), Null>>}

WriterDtypes ==
    {"int8", "int16", "int32", "int64", "float32", "float64", "object",
     "datetime64"}

\* the column whose rows alternate between the two values of pair
WriterColumn(name, dtype, pair, nobs) ==
    [name |-> name, dtype |-> dtype,
     values |-> [k \in 1..nobs |-> pair[2 - (k % 2)]]]

\* the frames with nobs rows: a first column of any kind named 'a', or of
\* two of the kinds under a name that is sanitized, and after it no column
\* or a column of numbers named 'b'
WriterFrames(nobs) ==
    LET cols(labels, dtypes) ==
            UNION { { WriterColumn(n, d, p, nobs) : n \in labels,
                                                    p \in WriterValues(d) }
                    : d \in dtypes }
        first == cols({StrName(<<"a">>)}, WriterDtypes) \cup
                 cols({StrName(<<"a", " ", "b">>)}, {"int32", "datetime64"})
        second == cols({StrName(<<"b">>)},
                       {"int8", "int16", "int32", "float32", "float64"})
    IN  { <<c>> : c \in first } \cup
        { <<c1, c2>> : c1 \in first, c2 \in second }

\* the date tags a date-conversion directive may name
WriterTags == {"tc", "%tw", "tC", "%tC"}

\* data.reset_index(): the index becomes a first column of int64
ResetIndex(data) ==
    LET nobs == Len(data[1].values) IN
    << [name |-> StrName(<<"i", "n", "d", "e", "x">>), dtype |-> "int64",
        values |-> [k \in 1..nobs |-> Pos(0, k - 1)]] >> \o data

\* _cast_to_stata_types on one column: the kinds that are numbers are cast,
\* the others are left as they are
CastWriterColumn(c) ==
    IF c.dtype \in {"int8", "int16", "int32", "int64"}
    THEN LET x == CheckValues(ConvertUnsupported([dtype |-> c.dtype,
                                                  values |-> c.values])).col
         IN  [c EXCEPT !.dtype = x.dtype, !.values = x.values]
    ELSE c

\* the loop of _check_column_names over all the columns
RECURSIVE CheckNamesLoop(_, _, _)
CheckNamesLoop(columns, j, id) ==
    IF j > Len(columns) THEN [error |-> "none", columns |-> columns]
    ELSE LET r == CheckName(columns, columns[j], id) IN
         IF r.error # "none" THEN [error |-> r.error, columns |-> columns]
         ELSE CheckNamesLoop([columns EXCEPT ![j] = r.name], j + 1,
                             r.duplicate_var_id)

\* _check_column_names: the names stored and the dictionary of the dates
CheckColumnNames(columns, convert_dates) ==
    LET r == CheckNamesLoop(columns, 1, 0) IN
    IF r.error # "none"
    THEN [error |-> r.error, columns |-> columns, convert_dates |-> convert_dates]
    ELSE IF convert_dates = << >>
    THEN [error |-> "none", columns |-> r.columns, convert_dates |-> convert_dates]
    ELSE LET f == FixConvertDatesLoop(r.columns, columns, 1, convert_dates) IN
         [error |-> f.error, columns |-> r.columns,
          convert_dates |-> f.convert_dates]

\* _replace_nans on one column: NaN becomes MISSING_VALUES['f'] or ['d']
ReplaceNans(c) ==
    IF c.dtype \in {"float32", "float64"}
    THEN [c EXCEPT !.values =
            [k \in DOMAIN c.values |->
                IF c.values[k].nan
                THEN Float(IF c.dtype = "float32" THEN MvBase32 ELSE MvBase64)
                ELSE c.values[k]]]
    ELSE c

\* varlist.index(key)
IndexOf(varlist, key) == CHOOSE k \in 1..Len(varlist) : varlist[k] = key

\* fmt.startswith("%") and "%" + fmt, on the tags of the model
StartsWithPercent(fmt) ==
    fmt \in {"%tc", "%tC", "%td", "%tw", "%tm", "%tq", "%th", "%ty", "%tx"}

AddPercent(fmt) ==
    CASE fmt = "tc" -> "%tc" [] fmt = "tC" -> "%tC" [] fmt = "td" -> "%td"
      [] fmt = "tw" -> "%tw" [] fmt = "tm" -> "%tm" [] fmt = "tq" -> "%tq"
      [] fmt = "th" -> "%th" [] fmt = "ty" -> "%ty" [] OTHER -> "%tx"

\* _maybe_convert_to_int_keys: the keys become positions and every format
\* starts with '%'; a key that is no column and no integer is an error
MaybeConvertToIntKeys(convert_dates, varlist) ==
    LET keys == DOMAIN convert_dates
        columns == {varlist[k] : k \in 1..Len(varlist)}
        fmt(key) == IF StartsWithPercent(convert_dates[key])
                    THEN convert_dates[key]
                    ELSE AddPercent(convert_dates[key])
    IN  IF \E key \in keys : key \notin columns
        THEN [error |-> "ValueError", convert_dates |-> << >>]
        ELSE [error |-> "none",
              convert_dates |->
                 [i \in {IndexOf(varlist, key) : key \in keys} |->
                     fmt(CHOOSE key \in keys : IndexOf(varlist, key) = i)]]

\* _convert_datetime_to_stata_type: the formats the writer accepts
ConvertDatetimeToStataType_any(fmt) == TRUE

ConvertDatetimeToStataType(fmt) == fmt \in EncodeFormats

\* _dtype_to_stata_type: the type code of a kind, 0 for a kind that is not
\* understood
DtypeToStataType(dtype) ==
    CASE dtype = "object"  -> 244
      [] dtype = "float64" -> 255
      [] dtype = "float32" -> 254
      [] dtype = "int32"   -> 253
      [] dtype = "int16"   -> 252
      [] dtype = "int8"    -> 251
      [] OTHER             -> 0

\* max_len_string_array: the longest text of the column, in characters
MaxLenStringArray(values) ==
    IF values = << >> THEN 0
    ELSE CHOOSE n \in {values[k].chars : k \in DOMAIN values} :
            \A k \in DOMAIN values : values[k].chars <= n

\* line 1249
TooLong(itemsize) == itemsize > StrLimit

\* _dtype_to_default_stata_fmt: the default format of a column, or the error
DtypeToDefaultStataFmt(dtype, column) ==
    CASE dtype = "object" ->
            IF ~( (\A k \in DOMAIN column.values : column.values[k].is_text)
                  \/ Len(column.values) = 0 )
            THEN [error |-> "ValueError: general object", fmt |-> ""]
            ELSE IF TooLong(MaxLenStringArray(column.values))
            THEN [error |-> "ValueError: excessive string length", fmt |-> ""]
            ELSE [error |-> "none", fmt |-> "%s"]
      [] dtype = "float64" -> [error |-> "none", fmt |-> "%10.0g"]
      [] dtype = "float32" -> [error |-> "none", fmt |-> "%9.0g"]
      [] dtype = "int32"   -> [error |-> "none", fmt |-> "%12.0g"]
      [] dtype \in {"int8", "int16"} -> [error |-> "none", fmt |-> "%8.0g"]
      [] OTHER -> [error |-> "ValueError: data type", fmt |-> ""]

\* the writer that raised err during _prepare_pandas
NotPrepared(err) ==
    [error |-> err, data |-> << >>, varlist |-> << >>, typlist |-> << >>,
     fmtlist |-> << >>, convert_dates |-> << >>, nobs |-> 0, nvar |-> 0]

\* _prepare_pandas: the frame as it will be written, varlist, typlist and
\* fmtlist, or the first error in the order of the code
PrepareLists(data, varlist, convert_dates, dtypes, fmts) ==
    IF \E i \in DOMAIN convert_dates : ~ConvertDatetimeToStataType(convert_dates[i])
    THEN NotPrepared("ValueError: fmt not understood")
    ELSE IF \E i \in DOMAIN data : DtypeToStataType(dtypes[i]) = 0
    THEN NotPrepared("ValueError: data type")
    ELSE IF \E i \in DOMAIN data : fmts[i].error # "none"
    THEN NotPrepared(
            fmts[CHOOSE i \in DOMAIN data :
                    /\ fmts[i].error # "none"
                    /\ \A j \in 1..(i - 1) : fmts[j].error = "none"].error)
    ELSE [error |-> "none", data |-> data, varlist |-> varlist,
          typlist |-> [i \in DOMAIN data |-> DtypeToStataType(dtypes[i])],
          fmtlist |-> [i \in DOMAIN data |->
                         IF i \in DOMAIN convert_dates THEN convert_dates[i]
                         ELSE fmts[i].fmt],
          convert_dates |-> convert_dates,
          nobs |-> Len(data[1].values), nvar |-> Len(data)]

PrepareTypes(data, varlist, convert_dates, dtypes) ==
    PrepareLists(data, varlist, convert_dates, dtypes,
                 [i \in DOMAIN data |-> DtypeToDefaultStataFmt(dtypes[i], data[i])])

PrepareDateKeys(data, varlist, keys) ==
    IF keys.error # "none" THEN NotPrepared(keys.error)
    ELSE PrepareTypes(data, varlist, keys.convert_dates,
                      [i \in DOMAIN data |->
                         IF i \in DOMAIN keys.convert_dates THEN "float64"
                         ELSE data[i].dtype])

PrepareChecked(casted, checked) ==
    IF checked.error # "none" THEN NotPrepared(checked.error)
    ELSE PrepareDateKeys(
            [i \in DOMAIN casted |->
                ReplaceNans([casted[i] EXCEPT !.name = checked.columns[i]])],
            checked.columns,
            MaybeConvertToIntKeys(checked.convert_dates, checked.columns))

PrepareCasted(casted, given_convert_dates) ==
    PrepareChecked(casted,
                   CheckColumnNames([i \in DOMAIN casted |-> casted[i].name],
                                    given_convert_dates))

PrepareReset(reset, given_convert_dates) ==
    PrepareCasted([i \in DOMAIN reset |-> CastWriterColumn(reset[i])],
                  given_convert_dates)

PreparePandas(frame, given_convert_dates, write_index) ==
    PrepareReset(IF write_index THEN ResetIndex(frame) ELSE frame,
                 given_convert_dates)

\* the frame and the dictionary the caller gave, as __init__ leaves them.
\* Without write_index, data is the caller's frame: _cast_to_stata_types
\* assigns the cast columns to it, _check_column_names its labels and
\* _replace_nans the columns without NaN.  self._convert_dates is the
\* caller's dictionary: _check_column_names moves the keys of the renamed
\* columns, and _maybe_convert_to_int_keys stores '%' + tag under every key
\* (the directives here have one key, so the order of the keys plays no part)
CallerChecked(frame, given_convert_dates, write_index, casted, checked) ==
    [ frame |->
        IF write_index THEN frame
        ELSE [i \in DOMAIN frame |->
                IF checked.error = "none"
                THEN ReplaceNans([casted[i] EXCEPT !.name = checked.columns[i]])
                ELSE [casted[i] EXCEPT !.name = checked.columns[i]]],
      convert_dates |->
        IF given_convert_dates = << >> \/ checked.error # "none"
        THEN checked.convert_dates
        ELSE [key \in DOMAIN checked.convert_dates |->
                IF StartsWithPercent(checked.convert_dates[key])
                THEN checked.convert_dates[key]
                ELSE AddPercent(checked.convert_dates[key])] ]

CallerCasted(frame, given_convert_dates, write_index, casted) ==
    CallerChecked(frame, given_convert_dates, write_index, casted,
                  CheckColumnNames([i \in DOMAIN casted |-> casted[i].name],
                                   given_convert_dates))

CallerReset(frame, given_convert_dates, write_index, reset) ==
    CallerCasted(frame, given_convert_dates, write_index,
                 [i \in DOMAIN reset |-> CastWriterColumn(reset[i])])

CallerAfterInit(frame, given_convert_dates, write_index) ==
    CallerReset(frame, given_convert_dates, write_index,
                IF write_index THEN ResetIndex(frame) ELSE frame)


\* the integer a column value stands for (below 2^31 in magnitude)
BigToInt(b) == (IF b.neg THEN -1 ELSE 1) * (b.hi * 1000000000 + b.lo)

\* the width bytes of an integer in two's complement, least significant first
RECURSIVE Pow256(_)
Pow256(k) == IF k = 0 THEN 1 ELSE 256 * Pow256(k - 1)

IntBytes(v, width) ==
    IF v >= 0 THEN [k \in 1..width |-> (v \div Pow256(k - 1)) % 256]
    ELSE [k \in 1..width |-> 255 - (((-v - 1) \div Pow256(k - 1)) % 256)]

BytesToInt(b) ==
    LET width == Len(b)
        mag(q) == LET s[k \in 0..width] ==
                         IF k = 0 THEN 0 ELSE s[k - 1] * 256 + q[width + 1 - k]
                  IN  s[width]
    IN  IF b[width] < 128 THEN mag(b)
        ELSE -(mag([k \in 1..width |-> 255 - b[k]])) - 1

\* bytes in the order byteorder ("<" or ">") of bytes given least
\* significant first, and back
InOrder(bytes, byteorder) == IF byteorder = "<" THEN bytes ELSE Reverse(bytes)

\* the number of bytes of the cells of a column with this type code
TypeWidth(typ) ==
    CASE typ = 251 -> 1 [] typ = 252 -> 2 [] typ = 253 -> 4 [] typ = 254 -> 4
      [] typ = 255 -> 8 [] OTHER -> typ

\* the time stamps a writer may be given: None, a datetime, a text
TimeStamps == {"None", "datetime", "str"}

\* the bytes the parts of the header take: format, byte order, file type,
\* unused, nvar, nobs and the data label; then the time stamp
HeaderHeadLen == 1 + 1 + 1 + 1 + 2 + 4 + 81
TimeStampLen == 18

\* self._write(typ) of one type code: Python 3 encodes the character in the
\* writer's encoding, and a code above 127 takes two bytes in utf-8
TypeCodeLen(typ, encoding, py3) ==
    IF py3 /\ encoding = "utf-8" /\ typ > 127 THEN 2 ELSE 1

\* _write_descriptors, _write_variable_labels and the expansion fields
DescriptorsLen(w) ==
    LET nvar == w.nvar
        sum[i \in 0..nvar] ==
            IF i = 0 THEN 0
            ELSE sum[i - 1] + TypeCodeLen(w.typlist[i], w.encoding, w.py3)
    IN  sum[nvar] + 33 * nvar + 2 * (nvar + 1) + 49 * nvar + 33 * nvar

VariableLabelsLen(w) == 81 * w.nvar
ExpansionLen == 5

\* step 1 of _prepare_data on column i: the dates become doubles; a column
\* that holds no dates is an error of _datetime_to_stata_elapsed_vec
PrepareDates(w, i) ==
    IF w.data[i].dtype = "datetime64"
    THEN LET r == EncodeDates(w.data[i].values, w.fmtlist[i]) IN
         [error |-> IF r.error = "none" THEN "none" ELSE "ValueError: dates",
          cells |-> [k \in DOMAIN r.cells |-> Float(DoubleBytes(r.cells[k]))]]
    ELSE [error |-> "ValueError: dates", cells |-> << >>]

\* the bytes of one cell as tofile writes them, in the byte order of the
\* host; a text is given by the bytes it keeps and whether it was cut
CellBytes(w, i, k) ==
    LET typ == w.typlist[i]
        c == w.data[i]
    IN  IF i \in DOMAIN w.convert_dates
        THEN InOrder(PrepareDates(w, i).cells[k].bytes, w.host)
        ELSE IF typ <= StrLimit
        THEN [is_text |-> TRUE, chars |-> c.values[k].chars,
              cut |-> EncodedLen(c.values[k], w.encoding) > typ]
        ELSE IF c.dtype \in {"float32", "float64"}
        THEN InOrder(c.values[k].bytes, w.host)
        ELSE InOrder(IntBytes(BigToInt(c.values[k]), TypeWidth(typ)), w.host)

RowLen(w) ==
    LET sum[i \in 0..w.nvar] ==
            IF i = 0 THEN 0 ELSE sum[i - 1] + TypeWidth(w.typlist[i])
    IN  sum[w.nvar]

\* the file as write_file leaves it: the fields of the header and of the
\* descriptors, the rows of the data block, and the count of the bytes
FileImage(w) ==
    [ format |-> 114,
      byteorder |-> w.byteorder,
      nvar |-> InOrder(IntBytes(w.nvar, 2), w.byteorder),
      nobs |-> InOrder(IntBytes(w.nobs, 4), w.byteorder),
      typlen |-> [i \in 1..w.nvar |->
                     TypeCodeLen(w.typlist[i], w.encoding, w.py3)],
      typlist |-> w.typlist,
      varlist |-> w.varlist,
      fmtlist |-> w.fmtlist,
      rows |-> [k \in 1..w.nobs |-> [i \in 1..w.nvar |-> CellBytes(w, i, k)]] ]

\* write_file: the count of the bytes the destination has received and the
\* error, if one was raised
WriteFileResult(w) ==
    LET head == HeaderHeadLen
        header == head + TimeStampLen
        before_data == header + DescriptorsLen(w) + VariableLabelsLen(w)
                          + ExpansionLen
        bad_dates == {i \in DOMAIN w.convert_dates :
                         PrepareDates(w, i).error # "none"}
    IN  IF w.time_stamp = "str"
        THEN [error |-> "ValueError: time_stamp", written |-> head, closed |-> FALSE]
        ELSE IF bad_dates # {}
        THEN [error |-> "ValueError: dates", written |-> before_data,
              closed |-> FALSE]
        ELSE [error |-> "none", written |-> before_data + w.nobs * RowLen(w),
              closed |-> TRUE]

\* a < b for two floats of the same width given by their bytes, least
\* significant first (neither is a NaN)
FloatMagnitude(b) == Reverse([b EXCEPT ![Len(b)] = @ % 128])
FloatLT(a, b) ==
    LET n == Len(a)
        zero == [k \in 1..n |-> 0]
    IN  IF a[n] >= 128 /\ b[n] < 128
        THEN FloatMagnitude(a) # zero \/ FloatMagnitude(b) # zero
        ELSE IF a[n] < 128 /\ b[n] >= 128 THEN FALSE
        ELSE IF a[n] >= 128 THEN LexLT(FloatMagnitude(b), FloatMagnitude(a))
        ELSE LexLT(FloatMagnitude(a), FloatMagnitude(b))

\* VALID_RANGE['f']
float32_min == <<255, 255, 255, 254>>
float32_max == <<255, 255, 255, 126>>

\* the integer a double holds, for integers below 2^31 in magnitude
DoubleToInt(b) ==
    IF FloatMagnitude(b) = <<0, 0, 0, 0, 0, 0, 0, 0>> THEN 0
    ELSE LET c == UnpackFloat64([b EXCEPT ![8] = @ % 128])
             m == (c.hi * Pow2(24) + c.lo) * Pow2(c.e)
         IN  IF b[8] >= 128 THEN -m ELSE m

\* DTYPE_MAP: the kind of the column a type code is read into
TypeKind(typ) ==
    CASE typ = 251 -> "int8" [] typ = 252 -> "int16" [] typ = 253 -> "int32"
      [] typ = 254 -> "float32" [] typ = 255 -> "float64" [] OTHER -> "object"

\* line 1065 on one cell read from the data block
CellIsMissing(typ, v) ==
    CASE typ = 251 -> IsMissing(v, VALID_RANGE("b")[1], VALID_RANGE("b")[2])
      [] typ = 252 -> IsMissing(v, VALID_RANGE("h")[1], VALID_RANGE("h")[2])
      [] typ = 253 -> IsMissing(v, VALID_RANGE("l")[1], VALID_RANGE("l")[2])
      [] typ = 254 -> FloatLT(v.bytes, float32_min) \/ FloatLT(float32_max, v.bytes)
      [] typ = 255 -> FloatLT(v.bytes, float64_min) \/ FloatLT(float64_max, v.bytes)
      [] OTHER -> FALSE

\* the cells a stored column of floats is drawn from, least significant
\* byte first: 1.0, the missing value . and a value below the valid range
FloatValues(fmt) ==
    IF fmt = "f"
    THEN { <<0, 0, 128, 63>>, <<0, 0, 0, 127>>, <<0, 0, 0, 255>> }
    ELSE { <<0, 0, 0, 0, 0, 0, 240, 63>>, <<0, 0, 0, 0, 0, 0, 224, 127>>,
           <<0, 0, 0, 0, 0, 0, 224, 255>> }

\* whether StataMissingValue(um) finds the float of these bytes among the
\* keys of MISSING_VALUES
HasMissingFloat(fmt, b) ==
    /\ b[Len(b)] < 128
    /\ (IF fmt = "f" THEN UnpackFloat32(b) ELSE UnpackFloat64(b))
          \in DictKeys(MISSING_VALUES)

\* lines 1058-1087 for one column of floats: 'f' and 'd' have a valid range
\* as the integer kinds have
DecodeMissingFloat(fmt, vals, convert_missing) ==
    LET typ == IF fmt = "f" THEN 254 ELSE 255
        plain == [k \in 1..Len(vals) |-> Cell("num", vals[k], "")]
        missing == [k \in 1..Len(vals) |-> CellIsMissing(typ, Float(vals[k]))]
    IN  IF \A k \in 1..Len(vals) : ~missing[k]
        THEN [missing |-> missing, out |-> plain, dtype |-> TypeKind(typ),
              error |-> "none"]
        ELSE IF convert_missing
        THEN IF \E k \in 1..Len(vals) : missing[k] /\ ~HasMissingFloat(fmt, vals[k])
             THEN [missing |-> missing, out |-> << >>, dtype |-> "none",
                   error |-> "KeyError"]
             ELSE [missing |-> missing,
                   out |-> [k \in 1..Len(vals) |->
                              IF missing[k]
                              THEN Cell("missing", vals[k],
                                        DictGet(MISSING_VALUES,
                                                IF fmt = "f"
                                                THEN UnpackFloat32(vals[k])
                                                ELSE UnpackFloat64(vals[k])))
                              ELSE plain[k]],
                   dtype |-> "object", error |-> "none"]
        ELSE [missing |-> missing,
              out |-> [k \in 1..Len(vals) |->
                         IF missing[k] THEN Cell("nan", 0, "") ELSE plain[k]],
              dtype |-> PromotedKind(TypeKind(typ)), error |-> "none"]

\* one iteration of the loop of line 1058, over a column of floats
DecodeFloatColumn ==
    /\ dec.n < MaxCols
    /\ dec.error = "none"
    /\ \E fmt \in {"f", "d"}, cm \in BOOLEAN :
          \E vals \in SeqsUpTo(FloatValues(fmt), MaxRows) :
             LET x == DecodeMissingFloat(fmt, vals, cm) IN
             dec' = [ n |-> dec.n + 1, fmt |-> fmt, values |-> vals,
                      convert_missing |-> cm, missing |-> x.missing,
                      out |-> x.out, dtype |-> x.dtype, error |-> x.error ]
    /\ UNCHANGED <<file, rdr, hist, mv, cast, names, wr, dt, strm>>

NextDecode == DecodeColumn \/ DecodeFloatColumn

SpecDecode == InitDecode /\ [][NextDecode]_vars

\* np.frombuffer on one cell: the bytes are read in the byte order of the host
ReadCell(typ, cell, host) ==
    IF typ <= StrLimit THEN cell
    ELSE IF typ \in {254, 255} THEN Float(InOrder(cell, host))
    ELSE BytesToInt(InOrder(cell, host))

\* line 1029: DataFrame(columns=self.varlist) of a file without rows has
\* columns of objects
ObjectColumns(image, nvar) == [i \in 1..nvar |-> "object"]

\* StataReader(file).data() of the file image, with the defaults
\* convert_dates=True, convert_missing=False: the names, the kinds and the
\* cells of the columns of the frame
ReadImage(image, host) ==
    LET nvar == BytesToInt(InOrder(image.nvar, image.byteorder))
        nobs == BytesToInt(InOrder(image.nobs, image.byteorder))
        raw == [i \in 1..nvar |-> [k \in 1..nobs |->
                   ReadCell(image.typlist[i], image.rows[k][i], host)]]
        missing(i) == {k \in 1..nobs : CellIsMissing(image.typlist[i], raw[i][k])}
        is_date(i) == image.fmtlist[i] \in
                        {"%tc", "%tC", "%td", "%d", "%tw", "%tm", "%tq", "%th", "%ty"}
        double(i) == [k \in 1..nobs |->
                        IF k \in missing(i) THEN Null
                        ELSE Val(DoubleToInt(raw[i][k].bytes))]
    IN  IF nobs = 0
        THEN [names |-> image.varlist, kinds |-> ObjectColumns(image, nvar),
              columns |-> [i \in 1..nvar |-> << >>]]
        ELSE [names |-> image.varlist,
              kinds |-> [i \in 1..nvar |->
                  IF is_date(i) THEN DecodeDates(double(i), image.fmtlist[i]).kind
                  ELSE IF missing(i) # {} /\ image.typlist[i] \in {251, 252, 253}
                  THEN "float64"
                  ELSE TypeKind(image.typlist[i])],
              columns |-> [i \in 1..nvar |->
                  IF is_date(i) THEN DecodeDates(double(i), image.fmtlist[i]).cells
                  ELSE [k \in 1..nobs |->
                          IF k \in missing(i) THEN NaN ELSE raw[i][k]]]]

\* the writer before _prepare_pandas, with the arguments of the constructor
\* and the host it runs on
NewWriter(frame, convert_dates, options, host, py3) ==
    [ phase |-> "new", frame |-> frame, given_convert_dates |-> convert_dates,
      write_index |-> options.write_index, encoding |-> options.encoding,
      byteorder |-> options.byteorder, time_stamp |-> options.time_stamp,
      host |-> host, py3 |-> py3,
      data |-> << >>, varlist |-> << >>, typlist |-> << >>, fmtlist |-> << >>,
      convert_dates |-> << >>, nobs |-> 0, nvar |-> 0,
      opened |-> FALSE, written |-> 0, closed |-> FALSE, error |-> "none",
      image |-> Idle, table |-> Idle,
      caller_frame |-> frame, caller_convert_dates |-> convert_dates ]

\* the writer after _prepare_pandas returned p
Prepared(w, p) ==
    IF p.error # "none"
    THEN [w EXCEPT !.phase = "raised", !.error = p.error]
    ELSE [w EXCEPT !.phase = "constructed", !.opened = TRUE,
                   !.data = p.data, !.varlist = p.varlist,
                   !.typlist = p.typlist, !.fmtlist = p.fmtlist,
                   !.convert_dates = p.convert_dates,
                   !.nobs = p.nobs, !.nvar = p.nvar]

\* StataWriter.__init__: _prepare_pandas, and then the destination is opened
ConstructWriter ==
    /\ wr # Idle
    /\ wr.phase = "new"
    /\ LET c == CallerAfterInit(wr.frame, wr.given_convert_dates, wr.write_index)
       IN  wr' = [Prepared(wr, PreparePandas(wr.frame, wr.given_convert_dates,
                                             wr.write_index))
                    EXCEPT !.caller_frame = c.frame,
                           !.caller_convert_dates = c.convert_dates]
    /\ UNCHANGED <<file, rdr, hist, mv, cast, dec, names, dt, strm>>

\* StataWriter.write_file
WriteFile ==
    /\ wr # Idle
    /\ wr.phase = "constructed"
    /\ LET r == WriteFileResult(wr) IN
       wr' = IF r.error # "none"
             THEN [wr EXCEPT !.phase = "raised", !.error = r.error,
                             !.written = r.written]
             ELSE [wr EXCEPT !.phase = "written", !.written = r.written,
                             !.closed = TRUE, !.image = FileImage(wr)]
    /\ UNCHANGED <<file, rdr, hist, mv, cast, dec, names, dt, strm>>

\* the written file is read on the same host by StataReader(...).data();
\* a file whose type codes took two bytes each is not read
ReadWritten ==
    /\ wr # Idle
    /\ wr.phase = "written"
    /\ \A i \in 1..wr.nvar : wr.image.typlen[i] = 1
    /\ wr' = [wr EXCEPT !.phase = "read", !.table = ReadImage(wr.image, wr.host)]
    /\ UNCHANGED <<file, rdr, hist, mv, cast, dec, names, dt, strm>>

\* the arguments of the constructor other than the frame and the dates: the
\* defaults, and the defaults with one argument changed
DefaultOptions ==
    [write_index |-> FALSE, encoding |-> "latin-1", byteorder |-> "<",
     time_stamp |-> "None"]

WriterOptions ==
    { DefaultOptions,
      [DefaultOptions EXCEPT !.write_index = TRUE],
      [DefaultOptions EXCEPT !.encoding = "utf-8"],
      [DefaultOptions EXCEPT !.byteorder = ">"],
      [DefaultOptions EXCEPT !.time_stamp = "datetime"],
      [DefaultOptions EXCEPT !.time_stamp = "str"] }

\* the date-conversion directives given with a frame: one for the first
\* column with each tag, or one for the last column
WriterConvertDates(frame) ==
    { [key \in {frame[1].name} |-> tag] : tag \in WriterTags }
        \cup { [key \in {frame[Len(frame)].name} |-> "tc"] }

\* the arguments given with a frame: no directive and any of the options,
\* or a directive and the default options
WriterArguments(frame) ==
    { [convert_dates |-> << >>, options |-> o] : o \in WriterOptions } \cup
    { [convert_dates |-> c, options |-> DefaultOptions] :
         c \in WriterConvertDates(frame) } \cup
    { [convert_dates |-> [key \in {frame[1].name} |-> "tc"],
       options |-> [DefaultOptions EXCEPT !.write_index = TRUE]] }

\* the hosts: sys.byteorder and the major version of Python
Hosts ==
    { [byteorder |-> "<", py3 |-> TRUE], [byteorder |-> ">", py3 |-> TRUE],
      [byteorder |-> "<", py3 |-> FALSE] }

InitWriter ==
    /\ file = Idle
    /\ rdr = Idle
    /\ hist = Idle
    /\ mv = Idle
    /\ cast = Idle
    /\ dec = Idle
    /\ names = Idle
    /\ \E nobs \in 0..MaxWriterRows :
         \E frame \in WriterFrames(nobs) :
            \E args \in WriterArguments(frame) :
               \E host \in Hosts :
                  wr = NewWriter(frame, args.convert_dates, args.options,
                                 host.byteorder, host.py3)
    /\ dt = Idle
    /\ strm = Idle

NextWriter == ConstructWriter \/ WriteFile \/ ReadWritten

SpecWriter == InitWriter /\ [][NextWriter]_vars

(***************************************************************************)
(* The date tags on write and on read: a writer is given a directive with  *)
(* a tag for its first column, and the reader decodes a column of that tag *)
(***************************************************************************)
\* the cells of the column the reader decodes
TagCells(tag) ==
    {Null} \cup {Val(v) : v \in {x \in SifValues(tag) : x > -2 /\ x < 100000000}}

InitDateTags ==
    /\ file = Idle
    /\ rdr = Idle
    /\ hist = Idle
    /\ mv = Idle
    /\ cast = Idle
    /\ dec = Idle
    /\ names = Idle
    /\ \E tag \in WriterTags :
         /\ \E nobs \in 0..MaxWriterRows :
              \E frame \in {f \in WriterFrames(nobs) :
                              Len(f) = 1 /\ f[1].dtype \in {"int32", "datetime64"}} :
                 wr = NewWriter(frame, [key \in {frame[1].name} |-> tag],
                                DefaultOptions, "<", TRUE)
         /\ \E cells \in SeqsUpTo(TagCells(tag), MaxRows) :
              dt = DatesStart(tag, cells)
    /\ strm = Idle

NextDateTags ==
    \/ ConstructWriter
    \/ WriteFile
    \/ ReadWritten
    \/ DecodeSif
    \/ EncodeColumn
    \/ ReadBackDates

SpecDateTags == InitDateTags /\ [][NextDateTags]_vars

(***************************************************************************)
(* Properties of the writer                                                *)
(***************************************************************************)
\* len of the longest value of a column of texts, encoded
LongestBytes(column, encoding) ==
    IF column.values = << >> THEN 0
    ELSE CHOOSE n \in {EncodedLen(column.values[k], encoding) :
                          k \in DOMAIN column.values} :
            \A k \in DOMAIN column.values :
               EncodedLen(column.values[k], encoding) <= n

IsTextColumn(column) ==
    /\ column.dtype = "object"
    /\ column.values # << >>
    /\ \A k \in DOMAIN column.values : column.values[k].is_text

\* C13: a frame with a column of texts whose longest value takes more than
\* 244 bytes is rejected by the constructor with the error of the
\* excessive string length, before the destination is opened and before a
\* byte is written; a frame whose columns of texts have longest values of
\* exactly 244 bytes is accepted.  (Frames given without a date directive,
\* whose other columns the writer accepts.)
C13_LongStringsRejected ==
    (wr.phase # "new" /\ wr.given_convert_dates = << >>
        /\ \A i \in DOMAIN wr.frame :
              wr.frame[i].dtype # "datetime64"
              /\ (wr.frame[i].dtype = "object" => IsTextColumn(wr.frame[i]))) =>
        /\ (\E i \in DOMAIN wr.frame :
               /\ IsTextColumn(wr.frame[i])
               /\ LongestBytes(wr.frame[i], wr.encoding) > 244) =>
              /\ wr.phase = "raised"
              /\ wr.error = "ValueError: excessive string length"
              /\ ~wr.opened
              /\ wr.written = 0
        /\ (\A i \in DOMAIN wr.frame :
               IsTextColumn(wr.frame[i]) =>
                  LongestBytes(wr.frame[i], wr.encoding) = 244) =>
              wr.opened

\* C14: when the constructor or write_file has raised an error, the
\* destination has received no byte.
C14_NoPartialOutput ==
    wr.phase = "raised" => wr.written = 0

\* C17: a writer given a directive with the tag tC or %tC raises an error in
\* its constructor, with the destination not opened and no byte written;
\* the decode of a column with the tag tC or %tC raises no error and
\* returns the cells it was given: the values unchanged, the nulls null.
C17_TagCRejectedOnWritePassedOnRead ==
    /\ (wr.phase # "new" /\ \E key \in DOMAIN wr.given_convert_dates :
                                wr.given_convert_dates[key] \in {"tC", "%tC"}) =>
          /\ wr.phase = "raised"
          /\ ~wr.opened
          /\ wr.written = 0
    /\ (dt.fmt \in {"tC", "%tC"} /\ dt.phase # "sif") =>
          /\ dt.phase = "dates"
          /\ dt.error = "none"
          /\ dt.dates = dt.sif

C17_Witness ==
    /\ wr.phase = "raised"
    /\ wr.frame[1].dtype = "datetime64"
    /\ wr.given_convert_dates[wr.frame[1].name] = "%tC"
    /\ wr.error = "ValueError: fmt not understood"
    /\ wr.written = 0
    /\ dt.fmt = "%tC"
    /\ dt.phase = "dates"
    /\ dt.sif = <<Val(86400000), Null>>
    /\ dt.dates = <<Val(86400000), Null>>

\* the cells of a column of the frame as numbers
FrameCells(column) ==
    [k \in DOMAIN column.values |->
        IF column.dtype \in {"float32", "float64"} THEN column.values[k]
        ELSE BigToInt(column.values[k])]

\* all the values of the column are numbers inside the valid range of its kind
InValidRange(column) ==
    \A k \in DOMAIN column.values :
       /\ column.dtype \in {"float32", "float64"} => ~column.values[k].nan
       /\ ~CellIsMissing(DtypeToStataType(column.dtype), FrameCells(column)[k])

FiveKinds == {"int8", "int16", "int32", "float32", "float64"}

RoundTripFrame ==
    /\ ~wr.write_index
    /\ \A i \in DOMAIN wr.frame :
          /\ wr.frame[i].dtype \in FiveKinds
          /\ InValidRange(wr.frame[i])
          /\ ValidName(wr.frame[i].name)

\* C18: a frame written without its index, whose columns have kinds among
\* int8, int16, int32, float32 and float64 and values inside the valid
\* ranges, is read back with the same names, kinds and values, in either
\* byte order.
C18_RoundTrip ==
    (wr.phase = "read" /\ RoundTripFrame) =>
        /\ wr.table.names = [i \in DOMAIN wr.frame |-> wr.frame[i].name]
        /\ wr.table.kinds = [i \in DOMAIN wr.frame |-> wr.frame[i].dtype]
        /\ wr.table.columns = [i \in DOMAIN wr.frame |-> FrameCells(wr.frame[i])]

\* the same for the frames that have a row
C18_RoundTrip_rows ==
    (wr.phase = "read" /\ RoundTripFrame /\ wr.nobs > 0) =>
        /\ wr.table.names = [i \in DOMAIN wr.frame |-> wr.frame[i].name]
        /\ wr.table.kinds = [i \in DOMAIN wr.frame |-> wr.frame[i].dtype]
        /\ wr.table.columns = [i \in DOMAIN wr.frame |-> FrameCells(wr.frame[i])]

\* C13 for the writers with the default encoding, in which every character
\* of a text takes one byte
C13_LongStringsRejected_latin1 ==
    wr.encoding = "latin-1" => C13_LongStringsRejected

(***************************************************************************)
(* StataReader on a stream that may end early or hold any bytes: the       *)
(* stream is its length and a cursor, every read returns the bytes that    *)
(* are left up to the count asked for, and the values the reader unpacks   *)
(* from the bytes after the descriptors are any values                     *)
(***************************************************************************)

\* the most columns and rows a stream declares, and the most bytes it
\* holds after the descriptors
MaxStreamVars == 1
MaxStreamObs == 1
MaxTail == 60

\* path_or_buf.read(n) at the cursor pos of a stream of size bytes: the
\* count of the bytes returned
Read(n, pos, size) ==
    IF n < 0 \/ n > size - pos THEN size - pos ELSE n

Short_never(got, n) == FALSE

\* struct.unpack(fmt, bytes) raises struct.error unless it is given
\* calcsize(fmt) bytes; ord(b'') raises TypeError
Short(got, n) == got # n

\* the fields _read_header reads after the first byte of a legacy stream, in
\* order, each with its length; strict tells that the bytes are unpacked
\* (or given to ord or to a dictionary), not strict that they are given to
\* _null_terminate or dropped
Field(name, len, strict) == [name |-> name, len |-> len, strict |-> strict]

PerVar(name, len, strict, nvar) == [i \in 1..nvar |-> Field(name, len, strict)]

HeaderFields(version, nvar) ==
    << Field("byteorder", 1, TRUE), Field("filetype", 1, TRUE),
       Field("unused", 1, FALSE), Field("nvar", 2, TRUE), Field("nobs", 4, TRUE),
       Field("data_label", IF version > 105 THEN 81 ELSE 32, FALSE) >>
    \o (IF version > 104 THEN << Field("time_stamp", 18, FALSE) >> ELSE << >>)
    \o PerVar("typlist", 1, TRUE, nvar)
    \o PerVar("varlist", IF version > 108 THEN 33 ELSE 9, FALSE, nvar)
    \o << Field("srtlist", 2 * (nvar + 1), TRUE) >>
    \o PerVar("fmtlist", IF version > 113 THEN 49
                         ELSE IF version > 104 THEN 12 ELSE 7, FALSE, nvar)
    \o PerVar("lbllist", IF version > 108 THEN 33 ELSE 9, FALSE, nvar)
    \o PerVar("vlblist", IF version > 105 THEN 81 ELSE 32, FALSE, nvar)

\* the length of the first byte and of the fields
HeaderLen(version, nvar) ==
    LET f == HeaderFields(version, nvar)
        sum[k \in 0..Len(f)] == IF k = 0 THEN 1 ELSE sum[k - 1] + f[k].len
    IN  sum[Len(f)]

\* the reads of the fields from field k on: the cursor after them, whether
\* a field was made of fewer bytes than its length, and the error of the
\* first strict field that was short
RECURSIVE ReadFields(_, _, _, _, _)
ReadFields(fields, k, pos, size, partial) ==
    IF k > Len(fields)
    THEN [error |-> "none", pos |-> pos, partial |-> partial, field |-> "none"]
    ELSE LET got == Read(fields[k].len, pos, size) IN
         IF fields[k].strict /\ Short(got, fields[k].len)
         THEN [error |-> "struct.error", pos |-> pos + got, partial |-> partial,
               field |-> fields[k].name]
         ELSE ReadFields(fields, k + 1, pos + got, size,
                         partial \/ (got # fields[k].len /\ fields[k].name # "unused"))

\* the stream and the reader before the constructor: the version, nvar and
\* nobs the stream declares, whether its type codes are known ones, and
\* its length; turn tells the iterations of a loop apart, it changes with
\* every iteration that goes on to the next
NewStream(version, nvar, nobs, types_ok, size) ==
    [ phase |-> "new", version |-> version, nvar |-> nvar, nobs |-> nobs,
      types_ok |-> types_ok, size |-> size, pos |-> 0,
      partial |-> FALSE, data_location |-> 0, seek_strls |-> 0,
      seek_value_labels |-> 0, data_read |-> FALSE,
      value_labels_read |-> FALSE, turn |-> 0, error |-> "none",
      field |-> "none" ]

Raise(s, err, field, pos) ==
    [s EXCEPT !.phase = "raised", !.error = err, !.field = field, !.pos = pos]

\* the constructor on a stream s, up to the expansion fields.  In a
\* stream of format 117 the header and the descriptors are taken as read
\* (or as raising an error): their offsets of the long strings, of the
\* data and of the value labels are any positions of the stream.
ReadStreamHeaderOf(s) ==
    IF Short(Read(1, 0, s.size), 1)
    THEN {Raise(s, "struct.error", "format", 0)}
    ELSE IF s.version = 117
    THEN {Raise(s, "ValueError", "header", s.pos)}
         \cup { [s EXCEPT !.phase = "constructed", !.seek_strls = strls,
                          !.data_location = strls,
                          !.seek_value_labels = labels] :
                  strls \in {0, s.size}, labels \in {0, s.size} }
    ELSE IF s.version \notin LegacyVersions
    THEN {Raise(s, "ValueError", "format", 1)}
    ELSE LET r == ReadFields(HeaderFields(s.version, s.nvar), 1, 1, s.size, FALSE)
         IN  IF r.error # "none" /\ r.field # "srtlist"
             THEN {Raise(s, r.error, r.field, r.pos)}
             ELSE IF ~s.types_ok /\ s.nvar > 0
             THEN {Raise(s, "ValueError", "typlist", r.pos)}
             ELSE IF r.error # "none"
             THEN {Raise(s, r.error, r.field, r.pos)}
             ELSE {[s EXCEPT !.phase = IF s.version > 104 THEN "expansion"
                                       ELSE "constructed",
                             !.pos = r.pos, !.partial = r.partial,
                             !.data_location = r.pos]}

\* one iteration of the loop over the expansion fields
ExpansionField ==
    /\ strm.phase = "expansion"
    /\ LET len_len == IF strm.version > 108 THEN 4 ELSE 2
           got1 == Read(1, strm.pos, strm.size)
           got2 == Read(len_len, strm.pos + got1, strm.size)
           pos == strm.pos + got1 + got2
       IN  IF Short(got1, 1)
           THEN strm' = Raise(strm, "struct.error", "data_type", strm.pos + got1)
           ELSE IF Short(got2, len_len)
           THEN strm' = Raise(strm, "struct.error", "data_len", pos)
           ELSE \E data_type \in {0, 1} : \E data_len \in {-1, 0, 5} :
                  strm' =
                    IF data_type = 0
                    THEN [strm EXCEPT !.phase = "constructed", !.pos = pos,
                                      !.data_location = pos]
                    ELSE LET got == Read(data_len, pos, strm.size) IN
                         [strm EXCEPT !.pos = pos + got, !.turn = 1 - @,
                                      !.partial = @ \/ (data_len >= 0 /\ got # data_len)]
    /\ UNCHANGED <<file, rdr, hist, mv, cast, dec, names, wr, dt>>

\* data() up to the read of the observations: the guard on a second call,
\* and in format 117 the move to the long strings
StreamData ==
    /\ strm.phase = "constructed"
    /\ IF strm.data_read
       THEN strm' = Raise(strm, "Exception", "data", strm.pos)
       ELSE IF strm.version >= 117
       THEN strm' = [strm EXCEPT !.phase = "strls", !.data_read = TRUE,
                                 !.pos = strm.seek_strls]
       ELSE strm' = [strm EXCEPT !.phase = "data", !.data_read = TRUE]
    /\ UNCHANGED <<file, rdr, hist, mv, cast, dec, names, wr, dt>>

\* one iteration of the loop of _read_strls: the format byteorder + 'L' is
\* four bytes long and eight are read
GsoEntry ==
    /\ strm.phase = "strls"
    /\ LET got3 == Read(3, strm.pos, strm.size)
           p3 == strm.pos + got3
           got8 == Read(8, p3, strm.size)
           p8 == p3 + got8
           got1 == Read(1, p8, strm.size)
           got4 == Read(4, p8 + got1, strm.size)
           p4 == p8 + got1 + got4
       IN  \E is_gso \in {got3 = 3, FALSE} :
              IF ~is_gso
              THEN strm' = [strm EXCEPT !.phase = "data", !.pos = p3]
              ELSE IF Short(got8, 4)
              THEN strm' = Raise(strm, "struct.error", "v_o", p8)
              ELSE IF Short(got4, 4)
              THEN strm' = Raise(strm, "struct.error", "length", p4)
              ELSE \E length \in {1, 3} :
                     LET got == Read(length - 1, p4, strm.size)
                         gotz == Read(1, p4 + got, strm.size)
                     IN  strm' = [strm EXCEPT !.pos = p4 + got + gotz,
                                              !.turn = 1 - @]
    /\ UNCHANGED <<file, rdr, hist, mv, cast, dec, names, wr, dt>>

\* np.frombuffer(buffer, dtype, count) raises ValueError when the buffer
\* holds fewer than count items
BufferTooSmall(got, count, itemsize) == got < count * itemsize

\* the read of the observations, every column one byte wide, and what
\* follows it in data(): the value labels when convert_categoricals is set
ReadObservations ==
    /\ strm.phase = "data"
    /\ LET itemsize == strm.nvar
           read_len == strm.nobs * itemsize
           got == Read(read_len, strm.data_location, strm.size)
           pos == strm.data_location + got
       IN  IF BufferTooSmall(got, strm.nobs, itemsize)
           THEN strm' = Raise(strm, "ValueError", "data", pos)
           ELSE \/ /\ itemsize = 0
                   /\ strm' = Raise(strm, "ValueError", "data", pos)
                \/ \E convert_categoricals \in BOOLEAN :
                      strm' =
                        IF ~convert_categoricals \/ (strm.version <= 108)
                        THEN [strm EXCEPT !.phase = "done", !.pos = pos]
                        ELSE [strm EXCEPT !.phase = "labels",
                                !.pos = IF strm.version >= 117
                                        THEN strm.seek_value_labels ELSE pos]
    /\ UNCHANGED <<file, rdr, hist, mv, cast, dec, names, wr, dt>>

\* one iteration of the loop of _read_value_labels
ValueLabelTable ==
    /\ strm.phase = "labels"
    /\ LET got5 == IF strm.version >= 117 THEN Read(5, strm.pos, strm.size) ELSE 0
           p5 == strm.pos + got5
           gots == Read(4, p5, strm.size)
           ps == p5 + gots
           pname == ps + Read(33, ps, strm.size)
           ppad == pname + Read(3, pname, strm.size)
           gotn == Read(4, ppad, strm.size)
           pn == ppad + gotn
           gott == Read(4, pn, strm.size)
           pt == pn + gott
           done == [strm EXCEPT !.phase = "done", !.value_labels_read = TRUE]
       IN  \E end_tag \in {strm.version >= 117 /\ got5 = 5, FALSE} :
              IF end_tag
              THEN strm' = [done EXCEPT !.pos = p5]
              ELSE IF gots = 0
              THEN strm' = [done EXCEPT !.pos = ps]
              ELSE IF Short(gotn, 4)
              THEN strm' = Raise(strm, "struct.error", "n", pn)
              ELSE IF Short(gott, 4)
              THEN strm' = Raise(strm, "struct.error", "txtlen", pt)
              ELSE \E n \in {0, 1, strm.size} : \E txtlen \in {0, 2} :
                     LET gotoff == Read(4 * n, pt, strm.size)
                         poff == pt + gotoff
                         gotval == Read(4 * n, poff, strm.size)
                         pval == poff + gotval
                         ptxt == pval + Read(txtlen, pval, strm.size)
                         pend == IF strm.version >= 117
                                 THEN ptxt + Read(6, ptxt, strm.size) ELSE ptxt
                     IN  IF Short(gotoff, 4 * n)
                         THEN strm' = Raise(strm, "struct.error", "off", poff)
                         ELSE IF Short(gotval, 4 * n)
                         THEN strm' = Raise(strm, "struct.error", "val", pval)
                         ELSE strm' = [strm EXCEPT !.pos = pend, !.turn = 1 - @]
    /\ UNCHANGED <<file, rdr, hist, mv, cast, dec, names, wr, dt>>

\* value_labels(): the loop is entered unless the labels were read
StreamValueLabels ==
    /\ strm.phase \in {"constructed", "done"}
    /\ ~strm.value_labels_read
    /\ IF strm.version < 117 /\ ~strm.data_read
       THEN strm' = Raise(strm, "Exception", "value_labels", strm.pos)
       ELSE IF strm.version <= 108
       THEN strm' = [strm EXCEPT !.phase = "done"]
       ELSE strm' = [strm EXCEPT !.phase = "labels",
                                 !.pos = IF strm.version >= 117
                                         THEN strm.seek_value_labels ELSE strm.pos]
    /\ UNCHANGED <<file, rdr, hist, mv, cast, dec, names, wr, dt>>

\* the streams: of a legacy format every length from the empty stream to
\* MaxTail bytes after the descriptors, of format 117 the bytes the offsets
\* point into, and a stream of an unknown format
Streams ==
    { NewStream(v, nvar, nobs, ok, size) :
        v \in LegacyVersions, nvar \in 0..MaxStreamVars,
        nobs \in 0..MaxStreamObs, ok \in BOOLEAN,
        size \in 0..(HeaderLen(115, MaxStreamVars) + MaxTail) }
    \cup { NewStream(v, nvar, nobs, TRUE, size) :
        v \in {117, 110}, nvar \in 0..MaxStreamVars, nobs \in 0..MaxStreamObs,
        size \in 0..MaxTail }

LegacyStreams ==
    { s \in Streams : s.version \in LegacyVersions
                         => s.size <= HeaderLen(s.version, s.nvar) + MaxTail }

\* StataReader(path_or_buf) on any of the streams
ReadStreamHeader ==
    /\ strm.phase = "closed"
    /\ \E s \in LegacyStreams : strm' \in ReadStreamHeaderOf(s)
    /\ UNCHANGED <<file, rdr, hist, mv, cast, dec, names, wr, dt>>

InitStream ==
    /\ strm = [phase |-> "closed"]
    /\ file = Idle /\ rdr = Idle /\ hist = Idle /\ mv = Idle /\ cast = Idle
    /\ dec = Idle /\ names = Idle /\ wr = Idle /\ dt = Idle

NextStream ==
    \/ ReadStreamHeader
    \/ ExpansionField
    \/ StreamData
    \/ GsoEntry
    \/ ReadObservations
    \/ ValueLabelTable
    \/ StreamValueLabels

SpecStream == InitStream /\ [][NextStream]_vars

\* the reader runs: a call that is inside one of its loops, or at the read
\* of the observations, goes on to its next step
SpecStreamLive ==
    /\ SpecStream
    /\ WF_vars(ExpansionField)
    /\ WF_vars(GsoEntry)
    /\ WF_vars(ReadObservations)
    /\ WF_vars(ValueLabelTable)

\* C19: when a legacy stream ends inside a field of the header, of the
\* descriptors or of the expansion fields, or inside the data block, the
\* constructor or the first data() call raises an error: no reader is
\* constructed, and no table returned, with a field that was made of fewer
\* bytes than its length.
C19_TruncationIsAnError ==
    (strm.phase \notin {"idle", "closed", "expansion", "raised"}
        /\ strm.version \in LegacyVersions)
        => ~strm.partial

\* C20: the constructor, data() and value_labels() end on every stream:
\* whenever one of them is inside its work (the header, the loop over the
\* expansion fields, the loop over the long strings, the read of the
\* observations, the loop over the value labels), it comes to return or to
\* raise an error.
C20_LoopsTerminate ==
    (strm.phase \in {"expansion", "strls", "data", "labels"})
        ~> (strm.phase \in {"constructed", "done", "raised"})

\* a legacy stream on which the loop over the expansion fields ran more
\* than once and the loop over the value labels read a table and then ended
C20_Witness ==
    /\ strm.phase = "done"
    /\ strm.version \in {113, 114, 115}
    /\ strm.value_labels_read
    /\ strm.data_location >= HeaderLen(strm.version, strm.nvar) + 10
    /\ strm.pos >= strm.data_location + strm.nobs * strm.nvar + 48

Distinct(seq) == \A a, b \in 1..Len(seq) : a # b => seq[a] # seq[b]

\* C11: when the input column names are pairwise distinct, the column names
\* are pairwise distinct after every iteration of the sanitization loop and
\* when it returns, also when a sanitized name equals another sanitized
\* name or the name of an earlier or later column; the collision loop
\* terminates, after at most one round per column of the table for each
\* column sanitized so far.
C11_NamesStayDistinct ==
    Distinct(names.original_columns) =>
        /\ Distinct(names.columns)
        /\ names.duplicate_var_id <= (names.j - 1) * Len(names.columns)

C11_Witness ==
    /\ names.phase = "returned"
    /\ names.original_columns =
          <<StrName(<<"a", " ", "b">>), StrName(<<"a", "_", "b">>)>>
    /\ names.columns =
          <<StrName(<<"_", "0", "a", "_", "b">>), StrName(<<"a", "_", "b">>)>>
    /\ names.duplicate_var_id = 1

\* C12: with a date-conversion dictionary keyed by column names, the check
\* of the column names ends without a KeyError, and when it returns the
\* dictionary maps the new name of every column that was selected to the tag
\* it was given and has no other key, for every combination of renamed and
\* unrenamed, selected and unselected columns.
C12_RenamesPropagated ==
    /\ Distinct(names.original_columns) => names.error # "KeyError"
    /\ (names.phase = "returned" /\ Distinct(names.original_columns)) =>
          /\ DOMAIN names.convert_dates =
                { names.columns[k] : k \in
                    { i \in 1..Len(names.columns) :
                        names.original_columns[i] \in DOMAIN names.given_convert_dates } }
          /\ \A k \in 1..Len(names.columns) :
                names.original_columns[k] \in DOMAIN names.given_convert_dates =>
                    names.convert_dates[names.columns[k]] =
                        names.given_convert_dates[names.original_columns[k]]

(***************************************************************************)
(* Properties of the reader                                                *)
(***************************************************************************)
Legacy113to115 == rdr.format_version \in {113, 114, 115}

\* C1: on a legacy reader of version 113, 114 or 115, value_labels() called
\* before any data() call fails with the "data has not been read" error and
\* leaves the value-label table unpopulated and the labels-read flag false.
C1_LabelsBeforeDataFail ==
    (Legacy113to115 /\ hist.last.op = "value_labels" /\ hist.data_calls = 0)
        => /\ hist.last.result = "DataNotRead"
           /\ ~rdr.has_dict
           /\ ~rdr.value_labels_read

C1_Witness ==
    /\ rdr.format_version = 114
    /\ hist.last.op = "value_labels"
    /\ hist.data_calls = 0
    /\ hist.last.result = "DataNotRead"

\* C2: on every reader at most one data() call returns a table; every data()
\* call that follows an earlier data() call fails with "data has already been
\* read" and returns nothing.
C2_DataAtMostOnce ==
    /\ hist.tables <= 1
    /\ (hist.last.op = "data" /\ hist.data_calls >= 2)
          => (hist.last.result = "DataAlreadyRead" /\ ~hist.last.table)

C2_Witness ==
    /\ hist.last.op = "data"
    /\ hist.data_calls >= 2
    /\ hist.tables = 1
    /\ hist.last.result = "DataAlreadyRead"

\* C3: on one reader, of any supported version, the value-label table is
\* populated (reset and parsed from the stream) at most once.
C3_LabelsPopulatedAtMostOnce == hist.populated <= 1

\* C4 as stated: on a legacy reader of version 113, 114 or 115 whose value
\* labels have been read, a further value_labels() call fails with the
\* "value labels have already been read" error.
C4_SecondRequestFails ==
    (Legacy113to115 /\ hist.last.op = "value_labels" /\ hist.last.pre_labels_read)
        => hist.last.result = "LabelsAlreadyRead"

\* C4 as amended: on a legacy reader of version 113, 114 or 115 whose value
\* labels have been read, a further value_labels() call succeeds and returns
\* the table already held, without resetting or parsing it again.
C4_SecondRequestReturnsCached ==
    (Legacy113to115 /\ hist.last.op = "value_labels" /\ hist.last.pre_labels_read)
        => /\ hist.last.result = "ok"
           /\ hist.last.table
           /\ rdr.has_dict
           /\ rdr.value_labels_read
           /\ hist.populated = hist.last.pre_populated

C4_Witness ==
    /\ rdr.format_version = 115
    /\ hist.last.op = "value_labels"
    /\ hist.last.pre_labels_read
    /\ rdr.value_label_dict # {}

\* C5: construction succeeds only for a legacy version byte 104, 105, 108,
\* 113, 114 or 115 or for release 117 of the tagged layout; with any other
\* version code it fails before a descriptor is read.
C5_SupportedVersionsOnly ==
    /\ rdr.state = "ready"
          => \/ /\ file.first_char # 60
                /\ file.first_char \in {104, 105, 108, 113, 114, 115}
             \/ /\ file.first_char = 60
                /\ file.release = 117
    /\ rdr.state = "failed" => ~rdr.header_read
    /\ rdr.state = "ready" => rdr.header_read

C5_Witness ==
    /\ rdr.state = "failed"
    /\ file.first_char = 117
    /\ ~rdr.header_read

\* C21: once the constructor returned, the header and the descriptors it
\* parsed (format version, byte order, nvar, nobs, data label, time stamp,
\* data location, type list, names, formats, label-set names, variable
\* labels) are the same after every data(), value_labels() and
\* variable_labels() call as before it, whether the call returns or raises.
C21_HeaderUnchanged ==
    [][rdr.state = "ready"
          => /\ rdr'.state = "ready"
             /\ rdr'.header = rdr.header
             /\ rdr'.format_version = rdr.format_version
             /\ rdr'.header_read]_vars

\* a reader of a two-column file after a data() call that returned and a
\* later call that raised
C21_Witness ==
    /\ rdr.state = "ready"
    /\ rdr.header.nvar = 2
    /\ rdr.header = file.header
    /\ hist.tables >= 1
    /\ hist.calls >= 3
    /\ hist.last.result \notin {"ok", "none"}

\* v div n = q and v mod n = r, by floor division with a remainder that is
\* not negative
FloorDivMod(v, n, q, r) == v = n * q + r /\ 0 <= r /\ r < n

\* d is the date C22 gives for the value v under the tag fmt
C22_IsDate(d, v, fmt) ==
    /\ d.ms = 0
    /\ CASE fmt \in {"%tw", "tw"} ->
              LET days == DayNumber(d) - DaysFromCivil(d.year, 1, 1) IN
              /\ days % 7 = 0
              /\ FloorDivMod(v, 52, d.year - 1960, days \div 7)
         [] fmt \in {"%tm", "tm"} ->
              d.day = 1 /\ FloorDivMod(v, 12, d.year - 1960, d.month - 1)
         [] fmt \in {"%tq", "tq"} ->
              /\ d.day = 1 /\ (d.month - 1) % 3 = 0
              /\ FloorDivMod(v, 4, d.year - 1960, (d.month - 1) \div 3)
         [] fmt \in {"%th", "th"} ->
              /\ d.day = 1 /\ (d.month - 1) % 6 = 0
              /\ FloorDivMod(v, 2, d.year - 1960, (d.month - 1) \div 6)
         [] fmt \in {"%ty", "ty"} -> d.year = v /\ d.month = 1 /\ d.day = 1
         [] fmt \in {"%td", "td"} -> DayNumber(d) = DaysFromCivil(1960, 1, 1) + v

C22_Decoded ==
    /\ dt.error = "none"
    /\ dt.phase = "dates"
    /\ \A k \in 1..Len(dt.sif) :
          ~dt.sif[k].null =>
              /\ ~dt.dates[k].null
              /\ C22_IsDate(dt.dates[k].v, dt.sif[k].v, dt.fmt)
              /\ (dt.fmt \in {"%tw", "tw"} /\ dt.sif[k].v = 52)
                    => dt.dates[k].v = DateTime(1961, 1, 1, 0)

\* C22 as stated: for every integer value v, negative ones included, the
\* decode returns for tw the first of January of the year 1960 + v div 52
\* plus (v mod 52) * 7 days, for tm, tq and th the first day of the month
\* (v mod n) * (12 / n) + 1 of the year 1960 + v div n, for ty the first of
\* January of the year v, for td the epoch plus v days; tw 52 is 1961-01-01.
C22_DecodeEveryInteger ==
    (dt.fmt \in SixTags /\ dt.phase # "sif") => C22_Decoded

\* C22 for the values whose year is one datetime has (1 to 9999): the same
\* dates; a column with a value of another year raises an error.
C22_DecodeRepresentable ==
    (dt.fmt \in SixTags /\ dt.phase # "sif") =>
        IF \A k \in 1..Len(dt.sif) :
              dt.sif[k].null \/ DecodedYear(dt.sif[k].v, dt.fmt) \in MINYEAR..MAXYEAR
        THEN C22_Decoded
        ELSE dt.phase = "raised" /\ dt.error \in {"ValueError", "OverflowError"}

\* a column of weeks with a negative value and the value 52, decoded
C22_Witness ==
    /\ dt.phase = "dates"
    /\ dt.fmt = "tw"
    /\ dt.sif = <<Val(-53), Val(52)>>
    /\ dt.dates = <<Val(DateTime(1958, 12, 24, 0)), Val(DateTime(1961, 1, 1, 0))>>

(***************************************************************************)
(* _read_header on the tagged layout (format 117): the map of offsets and  *)
(* the sections the reader seeks to                                        *)
(***************************************************************************)
\* the most columns of a tagged file
MaxTaggedVars == 2

\* the length of the opening and of the closing tag of a section
OpenTag(name) == Len("<" \o name \o ">")
CloseTag(name) == Len("</" \o name \o ">")

\* the bytes of the content of a section of a file with nvar columns
ContentLen(name, nvar, extra) ==
    CASE name = "variable_types" -> 2 * nvar
      [] name = "varnames" -> 33 * nvar
      [] name = "sortlist" -> 2 * (nvar + 1)
      [] name = "formats" -> 49 * nvar
      [] name = "value_label_names" -> 33 * nvar
      [] name = "variable_labels" -> 81 * nvar
      [] OTHER -> extra

SectionNames ==
    << "variable_types", "varnames", "sortlist", "formats", "value_label_names",
       "variable_labels", "characteristics", "data", "strls", "value_labels" >>

\* the position of the opening tag of each section of a file whose first
\* section opens at base, the sections following one another, with gap
\* bytes before <variable_labels>
RECURSIVE TagPositions(_, _, _, _, _)
TagPositions(k, pos, nvar, extra, gap) ==
    IF k > Len(SectionNames) THEN << >>
    ELSE LET at == IF SectionNames[k] = "variable_labels" THEN pos + gap ELSE pos
         IN  << at >> \o
             TagPositions(k + 1,
                          at + OpenTag(SectionNames[k])
                             + ContentLen(SectionNames[k], nvar, extra)
                             + CloseTag(SectionNames[k]),
                          nvar, extra, gap)

\* a tagged file: its number of columns, the type code of its columns, the
\* position of each opening tag, and the offsets its map stores, which are
\* those positions but for the one of <variable_labels>
TaggedFile(nvar, typ, base, extra, gap, stored) ==
    LET tags == TagPositions(1, base, nvar, extra, gap) IN
    [ nvar |-> nvar, typ |-> typ, tags |-> tags,
      map |-> [tags EXCEPT ![6] = stored] ]

IndexOfSection(name) == CHOOSE k \in 1..Len(SectionNames) : SectionNames[k] = name

TaggedFiles ==
    { TaggedFile(nvar, typ, base, extra, gap, stored) :
        nvar \in 0..MaxTaggedVars, typ \in {65526, 9, 32768}, base \in {200, 201},
        extra \in {0, 5}, gap \in {0, 4}, stored \in {0, 1000} }
    \cup
    { LET f == TaggedFile(nvar, 65530, 200, 0, gap, 0) IN
      [f EXCEPT !.map[6] = f.tags[6] + d] :
        nvar \in 0..MaxTaggedVars, gap \in {0, 4}, d \in {0, 8} }

\* what a read at the position pos of the file finds: the content of the
\* section that starts there, or bytes of something else
SectionAt(f, pos) ==
    IF \E k \in 1..Len(SectionNames) : f.tags[k] + OpenTag(SectionNames[k]) = pos
    THEN SectionNames[CHOOSE k \in 1..Len(SectionNames) :
                         f.tags[k] + OpenTag(SectionNames[k]) = pos]
    ELSE "junk"

SeekVariableLabels_stored(stored, seek_value_label_names, nvar) == stored + 17

\* seek_variable_labels: computed from seek_value_label_names, the eight
\* bytes of the stored offset are read and thrown away
SeekVariableLabels(stored, seek_value_label_names, nvar) ==
    seek_value_label_names + (33 * nvar) + 20 + 17

\* the positions the reader computes from the offsets of the map
TaggedSeeks(f) ==
    LET seek_value_label_names == f.map[5] + 19 IN
    [ vartypes |-> f.map[1] + 16,
      varnames |-> f.map[2] + 10,
      sortlist |-> f.map[3] + 10,
      formats |-> f.map[4] + 9,
      value_label_names |-> seek_value_label_names,
      variable_labels |-> SeekVariableLabels(f.map[6], seek_value_label_names,
                                             f.nvar),
      data_location |-> f.map[8] + 6,
      seek_strls |-> f.map[9] + 7,
      seek_value_labels |-> f.map[10] + 14 ]

\* the type codes: 32768 raises ValueError and so does a code above 2045
\* that TYPE_MAP_XML does not have; the handler that formats the message
\* joins the integers and raises TypeError
TaggedTypesError(f) ==
    IF f.nvar > 0 /\ f.typ > 2045
           /\ f.typ \notin {65526, 65527, 65528, 65529, 65530}
    THEN "TypeError" ELSE "none"

\* the header the reader holds after the map and the descriptors: the
\* positions, and for each list the section it was read from
ReadTaggedHeader(f) ==
    LET seeks == TaggedSeeks(f) IN
    IF TaggedTypesError(f) # "none"
    THEN [ phase |-> "raised", error |-> TaggedTypesError(f), nvar |-> f.nvar,
           seeks |-> seeks ]
    ELSE [ phase |-> "ready", error |-> "none", nvar |-> f.nvar, seeks |-> seeks,
           typlist |-> SectionAt(f, seeks.vartypes),
           varlist |-> SectionAt(f, seeks.varnames),
           srtlist |-> SectionAt(f, seeks.sortlist),
           fmtlist |-> SectionAt(f, seeks.formats),
           lbllist |-> SectionAt(f, seeks.value_label_names),
           vlblist |-> SectionAt(f, seeks.variable_labels) ]

\* StataReader(path_or_buf) on a tagged file
ConstructTagged ==
    /\ rdr.phase = "new"
    /\ rdr' = ReadTaggedHeader(file)
    /\ UNCHANGED <<file, hist, mv, cast, dec, names, wr, dt, strm>>

InitTagged ==
    /\ file \in TaggedFiles
    /\ rdr = [phase |-> "new"]
    /\ hist = Idle /\ mv = Idle /\ cast = Idle /\ dec = Idle /\ names = Idle
    /\ wr = Idle /\ dt = Idle /\ strm = Idle

NextTagged == ConstructTagged

SpecTagged == InitTagged /\ [][NextTagged]_vars

\* C23: in the tagged header the variable labels are read at (stored
\* value_label_names offset + 19) + 33 * nvar + 20 + 17, whatever offset the
\* file stores for them: a file that differs only in that stored offset gives
\* the same header; the other sections are read at the stored offset + 16
\* (vartypes), + 10 (varnames), + 10 (sortlist), + 9 (formats), + 19
\* (value_label_names), + 7 (strls) and + 14 (value labels).
C23_TaggedOffsets ==
    rdr.phase \in {"ready", "raised"} =>
        /\ rdr.seeks.variable_labels
              = (file.map[IndexOfSection("value_label_names")] + 19)
                   + 33 * file.nvar + 20 + 17
        /\ rdr.seeks.vartypes = file.map[IndexOfSection("variable_types")] + 16
        /\ rdr.seeks.varnames = file.map[IndexOfSection("varnames")] + 10
        /\ rdr.seeks.sortlist = file.map[IndexOfSection("sortlist")] + 10
        /\ rdr.seeks.formats = file.map[IndexOfSection("formats")] + 9
        /\ rdr.seeks.value_label_names
              = file.map[IndexOfSection("value_label_names")] + 19
        /\ rdr.seeks.seek_strls = file.map[IndexOfSection("strls")] + 7
        /\ rdr.seeks.seek_value_labels
              = file.map[IndexOfSection("value_labels")] + 14
        /\ \A stored \in {0, 17, 1000, file.tags[6]} :
              rdr = ReadTaggedHeader([file EXCEPT !.map[6] = stored])
        /\ rdr.phase = "ready" =>
              /\ rdr.typlist = "variable_types" /\ rdr.varlist = "varnames"
              /\ rdr.srtlist = "sortlist" /\ rdr.fmtlist = "formats"
              /\ rdr.lbllist = "value_label_names"
              /\ (file.tags[6] = file.tags[5] + 19 + 33 * file.nvar + 20)
                    => rdr.vlblist = "variable_labels"

\* a file with two columns whose map stores a wrong offset for the variable
\* labels, read: the variable labels are the ones of the file
C23_Witness ==
    /\ rdr.phase = "ready"
    /\ file.nvar = 2
    /\ file.map[6] # file.tags[6]
    /\ rdr.vlblist = "variable_labels"
    /\ rdr.seeks.variable_labels = file.tags[6] + 17

(***************************************************************************)
(* StataReader.data: the value labels of a column (convert_categoricals)   *)
(***************************************************************************)
\* the most value-label tables of a file
MaxTables == 2

\* the integer v of 32 bits as a number of any size
ToBig(v) ==
    IF v < 0 THEN Neg((0 - v) \div 1000000000, (0 - v) % 1000000000)
    ELSE Pos(v \div 1000000000, v % 1000000000)

\* struct.unpack(byteorder + 'I', ...) of the four bytes of the stored code
\* v, the key _read_value_labels gives its label: an unsigned integer,
\* 4294967296 + v when v is negative
UnpackLabelCode(v) ==
    IF v >= 0 THEN ToBig(v)
    ELSE Pos(4 + (294967296 + v) \div 1000000000, (294967296 + v) % 1000000000)

\* the value-label tables a file stores after its data: the name of each and
\* its <<code, text>> entries, in the order of the file
StoredTables ==
    { [ name |-> "lblA", entries |-> << <<-1, "refused">>, <<1, "yes">> >> ],
      [ name |-> "lblA", entries |-> << <<1, "no">>, <<1, "never">> >> ],
      [ name |-> "lblB", entries |-> << <<101, "top">>, <<2, "two">> >> ] }

\* value_label_dict[labname] of one table: val[i] -> text, a later entry of
\* the same code replacing an earlier one
LabelDict(entries) ==
    LET keys == { UnpackLabelCode(entries[i][1]) : i \in 1..Len(entries) } IN
    [ k \in keys |->
        LET last == CHOOSE i \in 1..Len(entries) :
                       /\ UnpackLabelCode(entries[i][1]) = k
                       /\ \A j \in (i + 1)..Len(entries) :
                             UnpackLabelCode(entries[j][1]) # k
        IN  entries[last][2] ]

\* the loop of _read_value_labels over the tables of the file: nothing is
\* read up to version 108; a table replaces an earlier one of its name
LabelNames(version, tables) ==
    IF version <= 108 THEN {} ELSE { tables[i].name : i \in 1..Len(tables) }

ReadLabelDict(version, tables) ==
    [ n \in LabelNames(version, tables) |->
        LET last == CHOOSE i \in 1..Len(tables) :
                       /\ tables[i].name = n
                       /\ \A j \in (i + 1)..Len(tables) : tables[j].name # n
        IN  LabelDict(tables[last].entries) ]

\* data[col] == k for one cell: a number equals the key of its value; NaN
\* and a StataMissingValue object equal no key
CellEqualsKey(cell, k) == cell.kind = "num" /\ ToBig(cell.v) = k

\* lines 1100-1108 for one column: each cell that equals a key of the
\* dictionary of the column's label name becomes the text of that key
LabelColumn(cells, labels) ==
    [ i \in 1..Len(cells) |->
        IF \E k \in DOMAIN labels : CellEqualsKey(cells[i], k)
        THEN Cell("label", cells[i].v,
                  labels[CHOOSE k \in DOMAIN labels : CellEqualsKey(cells[i], k)])
        ELSE cells[i] ]

\* data() on a file of one integer column without date format: the check
\* for missing values, then the value labels
DataColumn(f, convert_categoricals, convert_missing) ==
    LET value_label_dict == IF convert_categoricals
                            THEN ReadLabelDict(f.version, f.tables)
                            ELSE << >>
        x == DecodeMissing(f.fmt, f.values, convert_missing)
    IN  IF x.error # "none"
        THEN [ n |-> 1, error |-> x.error, out |-> << >>, categorical |-> FALSE,
               convert_categoricals |-> convert_categoricals,
               convert_missing |-> convert_missing, missing |-> x.missing ]
        ELSE IF convert_categoricals /\ f.lblname \in DOMAIN value_label_dict
        THEN [ n |-> 1, error |-> "none",
               out |-> LabelColumn(x.out, value_label_dict[f.lblname]),
               categorical |-> TRUE,
               convert_categoricals |-> convert_categoricals,
               convert_missing |-> convert_missing, missing |-> x.missing ]
        ELSE [ n |-> 1, error |-> "none", out |-> x.out, categorical |-> FALSE,
               convert_categoricals |-> convert_categoricals,
               convert_missing |-> convert_missing, missing |-> x.missing ]

\* StataReader.data(convert_categoricals = cc, convert_missing = cm)
DataLabels ==
    /\ dec.n = 0
    /\ \E cc \in BOOLEAN, cm \in BOOLEAN : dec' = DataColumn(file, cc, cm)
    /\ UNCHANGED <<file, rdr, hist, mv, cast, names, wr, dt, strm>>

InitLabels ==
    /\ file \in { [ version |-> version, fmt |-> fmt, values |-> values,
                    lblname |-> lblname, tables |-> tables ] :
                    version \in {108, 114}, fmt \in {"b", "h"},
                    values \in SeqsUpTo({-1, 1, 2, 101}, MaxRows),
                    lblname \in {"", "lblA", "lblB"},
                    tables \in SeqsUpTo(StoredTables, MaxTables) }
    /\ dec = [ n |-> 0 ]
    /\ rdr = Idle /\ hist = Idle /\ mv = Idle /\ cast = Idle /\ names = Idle
    /\ wr = Idle /\ dt = Idle /\ strm = Idle

NextLabels == DataLabels

SpecLabels == InitLabels /\ [][NextLabels]_vars

\* the text the tables of the file give the code v under the label name n:
\* the entries of the last table of that name, the last entry of the code
C24_EntryLabels(entries, v) ==
    { entries[j][2] :
        j \in { j \in 1..Len(entries) :
                  /\ entries[j][1] = v
                  /\ \A j2 \in (j + 1)..Len(entries) : entries[j2][1] # v } }

C24_FileLabels(n, v) ==
    IF file.version <= 108 THEN {}
    ELSE UNION { C24_EntryLabels(file.tables[i].entries, v) :
                   i \in { i \in 1..Len(file.tables) :
                             /\ file.tables[i].name = n
                             /\ \A i2 \in (i + 1)..Len(file.tables) :
                                   file.tables[i2].name # n } }

C24_NamePresent ==
    /\ file.version > 108
    /\ \E i \in 1..Len(file.tables) : file.tables[i].name = file.lblname

\* C24: with categorical conversion requested, in a column whose label-set
\* name is in the value-label table every cell whose code has a label is
\* replaced by that label and every cell whose code has none keeps its raw
\* integer; a column whose label-set name is empty or absent from the table
\* is left unchanged.  Stated for the cells that are not missing.
C24_LabelsReplaceCodes ==
    (dec.n = 1 /\ dec.error = "none" /\ dec.convert_categoricals) =>
        /\ C24_NamePresent =>
              \A i \in 1..Len(file.values) :
                 ~dec.missing[i] =>
                    IF C24_FileLabels(file.lblname, file.values[i]) # {}
                    THEN /\ dec.out[i].kind = "label"
                         /\ dec.out[i].sym
                               \in C24_FileLabels(file.lblname, file.values[i])
                    ELSE dec.out[i] = Cell("num", file.values[i], "")
        /\ ~C24_NamePresent =>
              /\ ~dec.categorical
              /\ \A i \in 1..Len(file.values) :
                    ~dec.missing[i] => dec.out[i] = Cell("num", file.values[i], "")

C26_BeforeData == wr.written - wr.nobs * RowLen(wr)

C26_LayoutAgrees ==
    wr.phase \in {"written", "read"} =>
        /\ C26_BeforeData = HeaderLen(114, wr.nvar) + ExpansionLen
        /\ C26_BeforeData = 116 + 199 * wr.nvar
        /\ BytesToInt(InOrder(wr.image.nvar, wr.image.byteorder)) = wr.nvar
        /\ BytesToInt(InOrder(wr.image.nobs, wr.image.byteorder)) = wr.nobs
        /\ wr.image.byteorder = wr.byteorder

\* the valid range of the integer kind a column is written with
C27_ValidRange(dtype) ==
    CASE dtype = "int8"  -> <<Neg(0, 127), Pos(0, 100)>>
      [] dtype = "int16" -> <<Neg(0, 32767), Pos(0, 32740)>>
      [] dtype = "int32" -> <<Neg(2, 147483647), Pos(2, 147483620)>>

\* C27: after _cast_to_stata_types every value of a column that is written
\* as int8, int16 or int32 lies in the valid range of that kind ([-127, 100],
\* [-32767, 32740], [-2147483647, 2147483620]), whether the column came as
\* bool, uint8, uint16, uint32, int8, int16, int32 or int64.
C27_CastWithinValidRange ==
    (/\ cast.n > 0
     /\ cast.in.dtype \in {"bool", "uint8", "uint16", "uint32", "int8", "int16",
                            "int32", "int64"}
     /\ cast.out.dtype \in {"int8", "int16", "int32"}) =>
        \A k \in 1..Len(cast.out.values) :
           /\ BigLE(C27_ValidRange(cast.out.dtype)[1], cast.out.values[k])
           /\ BigLE(cast.out.values[k], C27_ValidRange(cast.out.dtype)[2])

\* C28: with convert_missing, every cell that the check of line 1065 finds
\* missing is a key of MISSING_VALUES, so data() does not fail on it and
\* puts a StataMissingValue with the symbol of the key in its place; int8
\* -128, int16 -32768 and int32 -2147483648 are among these cells.
C28_EveryMissingHasSymbol ==
    (dec.n > 0 /\ dec.convert_missing) =>
        /\ dec.error = "none"
        /\ \A k \in 1..Len(dec.values) :
              dec.missing[k] =>
                 /\ dec.out[k].kind = "missing"
                 /\ dec.out[k].sym \in { p[2] : p \in MISSING_VALUES }

\* C29: StataWriter(...) and write_file() leave what the caller gave as it
\* was: the frame keeps its labels, its kinds and its cells (NaN stays NaN)
\* and the dictionary of the dates keeps its keys and its tags, with and
\* without write_index.
C29_InputsUnchanged ==
    wr.phase # "new" =>
        /\ wr.caller_frame = wr.frame
        /\ wr.caller_convert_dates = wr.given_convert_dates

(***************************************************************************)
(* The weeks: a column of dates is encoded with the tag tw and read back   *)
(***************************************************************************)
\* the dates of the columns: the first days and the last days of a year
\* before the epoch, of a leap year and of a common year
WeekDates ==
    { DateTime(y, md[1], md[2], 0) :
        y \in {1959, 1960, 2013},
        md \in { <<1, 1>>, <<1, 8>>, <<12, 29>>, <<12, 30>>, <<12, 31>> } }

InitWeeks ==
    /\ file = Idle /\ rdr = Idle /\ hist = Idle /\ mv = Idle /\ cast = Idle
    /\ dec = Idle /\ names = Idle /\ wr = Idle /\ strm = Idle
    /\ \E fmt \in {"tw", "%tw"} :
         \E cells \in SeqsUpTo({Val(t) : t \in WeekDates}, MaxRows) :
            dt = [DatesStart(fmt, << >>) EXCEPT !.phase = "dates",
                                                !.kind = "datetime64",
                                                !.dates = cells]

NextWeeks == EncodeColumn \/ ReadBackDates

SpecWeeks == InitWeeks /\ [][NextWeeks]_vars

\* C30: the tw encoding of a date d, 52 * (year - 1960) + (day of the year,
\* from 0) div 7, lies between 52 * (year - 1960) and 52 * (year - 1960) + 51,
\* so that it decodes to a date of the year of d that is not later than d;
\* 30 and 31 December are among the dates.
C30_WeekInOwnYear ==
    /\ dt.phase \in {"encoded", "back"} =>
          \A k \in 1..Len(dt.dates) :
             /\ ~dt.enc[k].missing
             /\ dt.enc[k].v >= 52 * (dt.dates[k].v.year - 1960)
             /\ dt.enc[k].v <= 52 * (dt.dates[k].v.year - 1960) + 51
    /\ dt.phase = "back" =>
          \A k \in 1..Len(dt.dates) :
             /\ ~dt.back[k].null
             /\ dt.back[k].v.year = dt.dates[k].v.year
             /\ DayNumber(dt.back[k].v) <= DayNumber(dt.dates[k].v)

====
